---------------------------- MODULE Spec2Model ----------------------------
(***************************************************************************)
(* A model of the Mercor referral network (source/referral_network.py)    *)
(* and of the growth simulation and bonus optimisation                     *)
(* (source/simulation.py).                                                 *)
(*                                                                         *)
(* The referral store is a state machine: add_referral is the only         *)
(* mutation, the analytics are read operations.  Every call is one action  *)
(* that takes the store from "idle" to "returned" and records the call and *)
(* what it returned in lastCall; Return hands control back to the caller.  *)
(*                                                                         *)
(* reverse_referrals is a collections.defaultdict(set): subscripting it    *)
(* with a missing key inserts that key with an empty set.  The model keeps *)
(* the key set (the DOMAIN of the function) and every traversal threads    *)
(* the dictionary through, so that this side effect of reading is part of  *)
(* the model.                                                              *)
(*                                                                         *)
(* The order in which Python iterates a set of strings depends on the      *)
(* interpreter's hash seed and on the slots the members took in that set's *)
(* own hash table.  Every set (self.users and each reverse_referrals[k])   *)
(* therefore has an order of its own, kept in setOrder: it stays as it is  *)
(* while the set is unchanged, a new member may land anywhere in it, and   *)
(* the order is arbitrary again when the table is rebuilt.                 *)
(***************************************************************************)
EXTENDS Integers, Sequences, FiniteSets, TLC

\* ------------------------------------------------------------------ bounds

\* Number of distinct user identifiers the callers use.
MaxUsers == 4
\* The largest k handed to get_top_referrers (the smallest is -MaxK).
MaxK == 3
\* The largest number of days handed to min_bonus_for_target.
MaxDays == 2
\* Probabilities are multiples of 1 / 2^ProbBits: binary fractions, on which
\* the floating-point sums of the simulation are exact.
ProbBits == 7
\* simulate is called again on a simulator whose generator has made at most
\* MaxDrawn draws.
MaxDrawn == 200
\* An adoption_prob with a state of its own changes its answers after at most
\* MaxSteadyCalls calls; a search makes up to 13 calls, the last of them the
\* verification.
MaxSteadyCalls == 13

\* Identifiers are opaque tokens that are only compared and hashed.  A caller
\* that brings a new identifier brings the next unused name of this list.
Names == <<"alice", "bob", "charlie", "david", "eve", "frank">>
Ids == {Names[i] : i \in 1..MaxUsers}
\* The empty string: the identifier that "not referrer" rejects.
Empty == ""
Inputs == Ids \cup {Empty}
KValues == (0 - MaxK)..MaxK

VARIABLES
    referrals,          \* self.referrals: candidate -> referrer
    reverse_referrals,  \* self.reverse_referrals: referrer -> set of candidates
    users,              \* self.users
    setOrder,           \* the iteration order of self.users and of each
                        \* reverse_referrals[k]
    pc,                 \* "idle" | "returned"
    lastCall,           \* the call that returned last, with its result
    phase,              \* min_bonus_for_target: "idle" | "search" | "returned"
    call,               \* its arguments
    left,               \* its binary search interval
    right,
    outcome,            \* what it returned or raised
    probed,             \* the bonuses it has called adoption_prob with
    returned_probs,     \* the values adoption_prob has returned to it, in order
    simPhase,           \* NetworkSimulator: "idle" | "simulate" | "search" | "returned"
    simCall,            \* the method called on it, with its arguments
    simLocals,          \* the local variables of the running method
    simResult,          \* what the method returned or raised
    random_generator    \* self.random_generator: its seed and the number of
                        \* values it has drawn

store == <<referrals, reverse_referrals, users>>
network == <<referrals, reverse_referrals, users, setOrder, pc, lastCall>>
optimizer == <<phase, call, left, right, outcome, probed, returned_probs>>
simulator == <<simPhase, simCall, simLocals, simResult, random_generator>>
vars == <<referrals, reverse_referrals, users, setOrder, pc, lastCall,
          phase, call, left, right, outcome, probed, returned_probs,
          simPhase, simCall, simLocals, simResult, random_generator>>

\* ----------------------------------------------------------------- helpers

Min(a, b) == IF a < b THEN a ELSE b
Max(a, b) == IF a > b THEN a ELSE b

Range(seq) == {seq[i] : i \in DOMAIN seq}

RemoveAt(seq, i) == SubSeq(seq, 1, i - 1) \o SubSeq(seq, i + 1, Len(seq))

\* The sequences that list every member of S once.
RECURSIVE Orderings(_)
Orderings(S) ==
    IF S = {} THEN {<<>>}
    ELSE UNION {{<<x>> \o rest : rest \in Orderings(S \ {x})} : x \in S}

\* The empty dict.
EmptyDict == [x \in {} |-> {}]

\* for user in self.users: the users in the iteration order of that set.
IterUsers == setOrder.users

\* for c in self.reverse_referrals[k]: the members of that set in its
\* iteration order; a key the dict does not have yet stands for an empty set.
IterReferrals(k) ==
    IF k \in DOMAIN setOrder.reverse_referrals
    THEN setOrder.reverse_referrals[k] ELSE <<>>

\* set.add: the iteration orders a set can have once it has grown from the
\* members of order to S.  The members already there keep their slots, so
\* their relative order stays and the new ones land anywhere; a set's table
\* starts with 8 slots and is rebuilt when the fifth is taken, which may
\* reorder all members.
Grown(order, S) ==
    IF Range(order) = S THEN {order}
    ELSE {s \in Orderings(S) :
             \/ Len(order) < 5 /\ Cardinality(S) >= 5
             \/ SelectSeq(s, LAMBDA x : x \in Range(order)) = order}

\* The iteration orders of all sets once the collections are us and rr.
OrdersAfter(rr, us) ==
    LET grown == {k \in DOMAIN rr : Grown(IterReferrals(k), rr[k]) # {IterReferrals(k)}}
        choices == {g \in [grown -> UNION {Grown(IterReferrals(k), rr[k]) : k \in grown}] :
                       \A k \in grown : g[k] \in Grown(IterReferrals(k), rr[k])}
    IN  {[users |-> u,
          reverse_referrals |-> [k \in DOMAIN rr |->
                                    IF k \in grown THEN g[k] ELSE IterReferrals(k)]] :
            u \in Grown(setOrder.users, us), g \in choices}

\* d[k] on a defaultdict(set): a missing key is inserted with an empty set.
Touch(rr, k) == IF k \in DOMAIN rr THEN rr ELSE rr @@ (k :> {})

\* d.get(k, set()) on the same dict: no insertion.
Get(rr, k) == IF k \in DOMAIN rr THEN rr[k] ELSE {}

\* list.sort(key=lambda x: x[1], reverse=True): a stable sort on the second
\* component, descending; equal keys keep the order they came in.
RECURSIVE InsertDesc(_, _)
InsertDesc(sorted, x) ==
    IF sorted = <<>> THEN <<x>>
    ELSE IF Head(sorted)[2] >= x[2]
         THEN <<Head(sorted)>> \o InsertDesc(Tail(sorted), x)
         ELSE <<x>> \o sorted

RECURSIVE SortDesc(_)
SortDesc(seq) ==
    IF seq = <<>> THEN <<>>
    ELSE InsertDesc(SortDesc(SubSeq(seq, 1, Len(seq) - 1)), seq[Len(seq)])

\* seq[:k], Python's slice: a negative k counts from the end.
SliceTo(seq, k) ==
    IF k >= 0 THEN SubSeq(seq, 1, Min(k, Len(seq)))
    ELSE SubSeq(seq, 1, Max(Len(seq) + k, 0))

\* ------------------------------------------------------------ add_referral

\* The while loop of _would_create_cycle: a depth-first search from the
\* candidate along reverse_referrals that looks for the referrer.
RECURSIVE CycleLoop(_, _, _, _)
CycleLoop(referrer, stack, visited, rr) ==
    IF stack = <<>> THEN [result |-> FALSE, rr |-> rr]
    ELSE LET current == stack[Len(stack)]
             rest == SubSeq(stack, 1, Len(stack) - 1)
         IN  IF current = referrer THEN [result |-> TRUE, rr |-> rr]
             ELSE IF current \in visited
                  THEN CycleLoop(referrer, rest, visited, rr)
                  ELSE LET visited2 == visited \cup {current}
                           rr2 == Touch(rr, current)
                           pushed == SelectSeq(IterReferrals(current),
                                               LAMBDA n : n \notin visited2)
                       IN  CycleLoop(referrer, rest \o pushed, visited2, rr2)

NoCycleCheck(referrer, candidate, rr) == [result |-> FALSE, rr |-> rr]

\* A faulty cycle check that refuses every candidate who has referrals of
\* their own.
CycleCheckRefusesReferrers(referrer, candidate, rr) ==
    LET found == CycleLoop(referrer, <<candidate>>, {}, rr)
    IN  [result |-> found.result \/ Get(rr, candidate) # {}, rr |-> found.rr]

_would_create_cycle(referrer, candidate, rr) ==
    CycleLoop(referrer, <<candidate>>, {}, rr)

Rejected(kind, rr) ==
    [outcome |-> kind, referrals |-> referrals, rr |-> rr, users |-> users]

\* A faulty add_referral that writes the reverse index before it validates.
AddReferralEagerIndex(referrer, candidate) ==
    LET rr1 == Touch(reverse_referrals, referrer)
        rr2 == [rr1 EXCEPT ![referrer] = @ \cup {candidate}]
    IN  IF referrer = Empty \/ candidate = Empty THEN Rejected("InvalidInput", rr2)
        ELSE IF referrer = candidate THEN Rejected("SelfReferral", rr2)
        ELSE IF candidate \in DOMAIN referrals
             THEN Rejected("DuplicateReferrer", rr2)
        ELSE LET chk == _would_create_cycle(referrer, candidate, reverse_referrals)
             IN  IF chk.result THEN Rejected("CycleDetected", rr2)
                 ELSE [outcome |-> "ok",
                       referrals |-> referrals @@ (candidate :> referrer),
                       rr |-> rr2,
                       users |-> users \cup {referrer, candidate}]

\* A faulty add_referral that omits the check for an existing referrer.
AddReferralNoDuplicateCheck(referrer, candidate) ==
    IF referrer = Empty \/ candidate = Empty
    THEN Rejected("InvalidInput", reverse_referrals)
    ELSE IF referrer = candidate THEN Rejected("SelfReferral", reverse_referrals)
    ELSE LET chk == _would_create_cycle(referrer, candidate, reverse_referrals)
         IN  IF chk.result THEN Rejected("CycleDetected", chk.rr)
             ELSE LET rr1 == Touch(chk.rr, referrer)
                  IN  [outcome |-> "ok",
                       referrals |->
                           [c \in DOMAIN referrals \cup {candidate} |->
                               IF c = candidate THEN referrer ELSE referrals[c]],
                       rr |-> [rr1 EXCEPT ![referrer] = @ \cup {candidate}],
                       users |-> users \cup {referrer, candidate}]

\* A faulty add_referral that registers the candidate but not the referrer.
AddReferralCandidateOnly(referrer, candidate) ==
    IF referrer = Empty \/ candidate = Empty
    THEN Rejected("InvalidInput", reverse_referrals)
    ELSE IF referrer = candidate THEN Rejected("SelfReferral", reverse_referrals)
    ELSE IF candidate \in DOMAIN referrals
         THEN Rejected("DuplicateReferrer", reverse_referrals)
    ELSE LET chk == _would_create_cycle(referrer, candidate, reverse_referrals)
         IN  IF chk.result THEN Rejected("CycleDetected", chk.rr)
             ELSE LET rr1 == Touch(chk.rr, referrer)
                  IN  [outcome |-> "ok",
                       referrals |-> referrals @@ (candidate :> referrer),
                       rr |-> [rr1 EXCEPT ![referrer] = @ \cup {candidate}],
                       users |-> users \cup {candidate}]

\* add_referral: the outcome ("ok", or the ValueError raised, named after its
\* message) and the three collections as the call leaves them.
add_referral(referrer, candidate) ==
    IF referrer = Empty \/ candidate = Empty
    THEN Rejected("InvalidInput", reverse_referrals)
    ELSE IF referrer = candidate THEN Rejected("SelfReferral", reverse_referrals)
    ELSE IF candidate \in DOMAIN referrals
         THEN Rejected("DuplicateReferrer", reverse_referrals)
    ELSE LET chk == _would_create_cycle(referrer, candidate, reverse_referrals)
         IN  IF chk.result THEN Rejected("CycleDetected", chk.rr)
             ELSE LET rr1 == Touch(chk.rr, referrer)
                  IN  [outcome |-> "ok",
                       referrals |-> referrals @@ (candidate :> referrer),
                       rr |-> [rr1 EXCEPT ![referrer] = @ \cup {candidate}],
                       users |-> users \cup {referrer, candidate}]

\* ------------------------------------------------------------ reachability

\* A faulty get_direct_referrals that subscripts the defaultdict instead of
\* calling get.
DirectReferralsBySubscript(user) ==
    [result |-> IterReferrals(user),
     rr |-> Touch(reverse_referrals, user)]

get_direct_referrals(user) ==
    [result |-> IterReferrals(user), rr |-> reverse_referrals]

\* The while loop of get_total_referral_count: count is incremented for
\* every candidate appended to the queue.
RECURSIVE CountLoop(_, _, _, _)
CountLoop(queue, visited, count, rr) ==
    IF queue = <<>> THEN [result |-> count, rr |-> rr]
    ELSE LET current == Head(queue)
         IN  IF current \in visited
             THEN CountLoop(Tail(queue), visited, count, rr)
             ELSE LET visited2 == visited \cup {current}
                      rr2 == Touch(rr, current)
                      found == SelectSeq(IterReferrals(current),
                                         LAMBDA c : c \notin visited2)
                  IN  CountLoop(Tail(queue) \o found, visited2,
                                count + Len(found), rr2)

\* A faulty count that also counts the starting user.
CountIncludingSelf(user, rr) ==
    IF user \notin users THEN [result |-> 0, rr |-> rr]
    ELSE CountLoop(<<user>>, {}, 1, rr)

get_total_referral_count(user, rr) ==
    IF user \notin users THEN [result |-> 0, rr |-> rr]
    ELSE CountLoop(<<user>>, {}, 0, rr)

\* The while loop of _get_reachable_users.
RECURSIVE ReachLoop(_, _, _)
ReachLoop(queue, reachable, rr) ==
    IF queue = <<>> THEN [result |-> reachable, rr |-> rr]
    ELSE LET current == Head(queue)
         IN  IF current \in reachable
             THEN ReachLoop(Tail(queue), reachable, rr)
             ELSE LET reachable2 == reachable \cup {current}
                      rr2 == Touch(rr, current)
                      found == SelectSeq(IterReferrals(current),
                                         LAMBDA c : c \notin reachable2)
                  IN  ReachLoop(Tail(queue) \o found, reachable2, rr2)

_get_reachable_users(user, rr) ==
    IF user \notin users THEN [result |-> {}, rr |-> rr]
    ELSE LET r == ReachLoop(<<user>>, {}, rr)
         IN  [result |-> r.result \ {user}, rr |-> r.rr]

\* The while loop of _compute_shortest_paths; distances is the dict built so
\* far (a function whose domain is the set of users reached).
RECURSIVE PathLoop(_, _, _)
PathLoop(queue, distances, rr) ==
    IF queue = <<>> THEN [result |-> distances, rr |-> rr]
    ELSE LET current == Head(queue)
             rr2 == Touch(rr, current)
             found == SelectSeq(IterReferrals(current),
                                LAMBDA c : c \notin DOMAIN distances)
             distances2 == [u \in DOMAIN distances \cup Range(found) |->
                               IF u \in DOMAIN distances THEN distances[u]
                               ELSE distances[current] + 1]
         IN  PathLoop(Tail(queue) \o found, distances2, rr2)

\* A faulty BFS that gives every discovered user the distance 1.
ShortestPathsFlat(start, rr) ==
    LET r == ReachLoop(<<start>>, {}, rr)
    IN  [result |-> [u \in r.result |-> IF u = start THEN 0 ELSE 1], rr |-> r.rr]

_compute_shortest_paths(start, rr) ==
    PathLoop(<<start>>, [u \in {start} |-> 0], rr)

\* A faulty test that does not ask whether target can be reached from start.
OnShortestPathFromAnywhere(start, end, target, from_start, from_target) ==
    IF start = end \/ start = target \/ end = target THEN FALSE
    ELSE IF end \notin DOMAIN from_start THEN FALSE
    ELSE IF end \notin DOMAIN from_target THEN FALSE
    ELSE IF target \notin DOMAIN from_start THEN TRUE
    ELSE from_start[target] + from_target[end] = from_start[end]

_is_on_shortest_path(start, end, target, from_start, from_target) ==
    IF start = end \/ start = target \/ end = target THEN FALSE
    ELSE IF end \notin DOMAIN from_start THEN FALSE
    ELSE IF target \notin DOMAIN from_start THEN FALSE
    ELSE IF end \notin DOMAIN from_target THEN FALSE
    ELSE from_start[target] + from_target[end] = from_start[end]

\* ----------------------------------------------------------------- ranking

\* The for loop of get_top_referrers over self.users.
RECURSIVE TopLoop(_, _, _)
TopLoop(todo, referrer_counts, rr) ==
    IF todo = <<>> THEN [result |-> referrer_counts, rr |-> rr]
    ELSE LET user == Head(todo)
             total == get_total_referral_count(user, rr)
         IN  TopLoop(Tail(todo),
                     IF total.result > 0
                     THEN Append(referrer_counts, <<user, total.result>>)
                     ELSE referrer_counts,
                     total.rr)

\* A faulty ranking that sorts ascending.
TopReferrersAscending(k, rr) ==
    LET counted == TopLoop(IterUsers, <<>>, rr)
        sorted == SortDesc(counted.result)
    IN  [result |-> SliceTo([i \in DOMAIN sorted |-> sorted[Len(sorted) + 1 - i]], k),
         rr |-> counted.rr]

get_top_referrers(k, rr) ==
    LET counted == TopLoop(IterUsers, <<>>, rr)
    IN  [result |-> SliceTo(SortDesc(counted.result), k), rr |-> counted.rr]

\* The first for loop of get_unique_reach_expansion: user_reaches, a dict in
\* insertion order, here a sequence of <<user, reachable set>>.
RECURSIVE ReachesLoop(_, _, _)
ReachesLoop(todo, user_reaches, rr) ==
    IF todo = <<>> THEN [result |-> user_reaches, rr |-> rr]
    ELSE LET user == Head(todo)
             reach == _get_reachable_users(user, rr)
         IN  ReachesLoop(Tail(todo),
                         IF reach.result # {}
                         THEN Append(user_reaches, <<user, reach.result>>)
                         ELSE user_reaches,
                         reach.rr)

\* The inner for loop of the greedy selection: the index of the first entry
\* with the largest new coverage (0 stands for best_user = None).
RECURSIVE BestLoop(_, _, _, _, _)
BestLoop(user_reaches, i, remaining_uncovered, best, best_new_coverage) ==
    IF i > Len(user_reaches)
    THEN [best |-> best, best_new_coverage |-> best_new_coverage]
    ELSE LET new_coverage ==
                 Cardinality(user_reaches[i][2] \cap remaining_uncovered)
         IN  IF new_coverage > best_new_coverage
             THEN BestLoop(user_reaches, i + 1, remaining_uncovered, i, new_coverage)
             ELSE BestLoop(user_reaches, i + 1, remaining_uncovered, best,
                           best_new_coverage)

\* A faulty greedy selection that leaves the users it has covered in
\* remaining_uncovered.
RECURSIVE GreedyLoopKeepsCovered(_, _, _)
GreedyLoopKeepsCovered(user_reaches, remaining_uncovered, selected_users) ==
    IF remaining_uncovered = {} \/ user_reaches = <<>> THEN selected_users
    ELSE LET b == BestLoop(user_reaches, 1, remaining_uncovered, 0, 0)
         IN  IF b.best = 0 \/ b.best_new_coverage = 0 THEN selected_users
             ELSE GreedyLoopKeepsCovered(RemoveAt(user_reaches, b.best),
                             remaining_uncovered,
                             Append(selected_users,
                                    <<user_reaches[b.best][1], b.best_new_coverage>>))

\* The while loop of the greedy selection.
RECURSIVE GreedyLoop(_, _, _)
GreedyLoop(user_reaches, remaining_uncovered, selected_users) ==
    IF remaining_uncovered = {} \/ user_reaches = <<>> THEN selected_users
    ELSE LET b == BestLoop(user_reaches, 1, remaining_uncovered, 0, 0)
         IN  IF b.best = 0 \/ b.best_new_coverage = 0 THEN selected_users
             ELSE GreedyLoop(RemoveAt(user_reaches, b.best),
                             remaining_uncovered \ user_reaches[b.best][2],
                             Append(selected_users,
                                    <<user_reaches[b.best][1], b.best_new_coverage>>))

\* A faulty greedy selection that stops after the first pick.
UniqueReachFirstOnly(rr) ==
    LET reaches == ReachesLoop(IterUsers, <<>>, rr)
        user_reaches == reaches.result
        remaining == UNION {user_reaches[i][2] : i \in DOMAIN user_reaches}
        b == BestLoop(user_reaches, 1, remaining, 0, 0)
    IN  [result |-> IF users = {} \/ user_reaches = <<>> THEN <<>>
                    ELSE <<<<user_reaches[b.best][1], b.best_new_coverage>>>>,
         rr |-> IF users = {} THEN rr ELSE reaches.rr]

get_unique_reach_expansion(rr) ==
    IF users = {} THEN [result |-> <<>>, rr |-> rr]
    ELSE LET reaches == ReachesLoop(IterUsers, <<>>, rr)
             user_reaches == reaches.result
             remaining == UNION {user_reaches[i][2] : i \in DOMAIN user_reaches}
         IN  [result |-> IF user_reaches = <<>> THEN <<>>
                         ELSE SortDesc(GreedyLoop(user_reaches, remaining, <<>>)),
              rr |-> reaches.rr]

\* The loop of get_flow_centrality that fills all_distances.
RECURSIVE DistancesLoop(_, _, _)
DistancesLoop(todo, all_distances, rr) ==
    IF todo = <<>> THEN [result |-> all_distances, rr |-> rr]
    ELSE LET user == Head(todo)
             d == _compute_shortest_paths(user, rr)
         IN  DistancesLoop(Tail(todo), all_distances @@ (user :> d.result), d.rr)

\* The nested loops of get_flow_centrality: user3 gains one for every
\* ordered pair (user1, user2) it lies on a shortest path of.
CentralityScore(user3, all_distances) ==
    Cardinality({pair \in users \X users :
        /\ pair[1] # pair[2]
        /\ pair[2] \in DOMAIN all_distances[pair[1]]
        /\ user3 # pair[1] /\ user3 # pair[2]
        /\ _is_on_shortest_path(pair[1], pair[2], user3,
                                all_distances[pair[1]], all_distances[user3])})

\* A faulty centrality that reports only the users with a positive score.
FlowCentralityPositiveOnly(rr) ==
    IF Cardinality(users) < 3 THEN [result |-> <<>>, rr |-> rr]
    ELSE LET user_list == IterUsers
             dist == DistancesLoop(user_list, EmptyDict, rr)
             items == [i \in DOMAIN user_list |->
                          <<user_list[i], CentralityScore(user_list[i], dist.result)>>]
         IN  [result |-> SortDesc(SelectSeq(items, LAMBDA it : it[2] > 0)),
              rr |-> dist.rr]

get_flow_centrality(rr) ==
    IF Cardinality(users) < 3 THEN [result |-> <<>>, rr |-> rr]
    ELSE LET user_list == IterUsers
             dist == DistancesLoop(user_list, EmptyDict, rr)
             items == [i \in DOMAIN user_list |->
                          <<user_list[i], CentralityScore(user_list[i], dist.result)>>]
         IN  [result |-> SortDesc(items), rr |-> dist.rr]

get_network_stats(rr) ==
    LET counted == TopLoop(IterUsers, <<>>, rr)
    IN  [result |-> [total_users |-> Cardinality(users),
                     total_referrals |-> Cardinality(DOMAIN referrals),
                     active_referrers |-> Len(counted.result)],
         rr |-> counted.rr]

\* ------------------------------------------------------------------ actions

\* The identifiers not yet in the store, in the order callers take them.
Fresh == SelectSeq(SubSeq(Names, 1, MaxUsers), LAMBDA n : n \notin users)
FreshIds(n) == {Fresh[i] : i \in 1..Min(n, Len(Fresh))}

\* Arguments of add_referral: known users, the empty identifier, and up to two
\* new identifiers (the second new one only together with the first).
AddArgs ==
    {a \in (users \cup {Empty} \cup FreshIds(2)) \X (users \cup {Empty} \cup FreshIds(2)) :
        \A n \in FreshIds(2) \ FreshIds(1) :
            (a[1] = n \/ a[2] = n) => (a[1] \in FreshIds(1) \/ a[2] \in FreshIds(1))}

\* Arguments of the per-user queries: known users, the empty identifier and
\* one unknown identifier.
QueryArgs == users \cup {Empty} \cup FreshIds(1)

NoCall == [op |-> "none"]

AddReferral(referrer, candidate) ==
    /\ pc = "idle"
    /\ LET r == add_referral(referrer, candidate)
       IN  /\ referrals' = r.referrals
           /\ reverse_referrals' = r.rr
           /\ users' = r.users
           /\ setOrder' \in OrdersAfter(r.rr, r.users)
           /\ lastCall' = [op |-> "add_referral", referrer |-> referrer,
                           candidate |-> candidate, outcome |-> r.outcome]
    /\ pc' = "returned"
    /\ UNCHANGED <<optimizer, simulator>>

Answer(op, arg, r) ==
    /\ reverse_referrals' = r.rr
    /\ setOrder' \in OrdersAfter(r.rr, users)
    /\ lastCall' = [op |-> op, arg |-> arg, result |-> r.result]
    /\ pc' = "returned"
    /\ UNCHANGED <<referrals, users, optimizer, simulator>>

DirectReferrals(user) ==
    /\ pc = "idle"
    /\ Answer("get_direct_referrals", user, get_direct_referrals(user))

TotalReach(user) ==
    /\ pc = "idle"
    /\ Answer("get_total_referral_count", user,
              get_total_referral_count(user, reverse_referrals))

TopReferrers(k) ==
    /\ pc = "idle"
    /\ Answer("get_top_referrers", k, get_top_referrers(k, reverse_referrals))

UniqueReachExpansion ==
    /\ pc = "idle"
    /\ Answer("get_unique_reach_expansion", Empty,
              get_unique_reach_expansion(reverse_referrals))

FlowCentrality ==
    /\ pc = "idle"
    /\ Answer("get_flow_centrality", Empty, get_flow_centrality(reverse_referrals))

Stats ==
    /\ pc = "idle"
    /\ Answer("get_network_stats", Empty, get_network_stats(reverse_referrals))

\* The caller takes the result; the store is ready for the next call.
Return ==
    /\ pc = "returned"
    /\ pc' = "idle"
    /\ lastCall' = NoCall
    /\ UNCHANGED <<referrals, reverse_referrals, users, setOrder, optimizer,
                   simulator>>

\* No min_bonus_for_target call is running.
OptimizerIdle ==
    /\ phase = "idle"
    /\ call = NoCall
    /\ left = 0
    /\ right = 0
    /\ outcome = NoCall
    /\ probed = {}
    /\ returned_probs = <<>>

\* No method of the simulator is running.
SimulatorIdle ==
    /\ simPhase = "idle"
    /\ simCall = NoCall
    /\ simLocals = NoCall
    /\ simResult = NoCall

\* random.Random(seed) before its first draw.
Seeded(seed) == [seed |-> seed, drawn |-> 0]

\* NetworkSimulator(): no seed is given.
Unseeded == Seeded("None")

Init ==
    /\ referrals = EmptyDict
    /\ reverse_referrals = EmptyDict
    /\ users = {}
    /\ setOrder = [users |-> <<>>, reverse_referrals |-> EmptyDict]
    /\ pc = "idle"
    /\ lastCall = NoCall
    /\ OptimizerIdle
    /\ SimulatorIdle
    /\ random_generator = Unseeded

Next ==
    \/ \E a \in AddArgs : AddReferral(a[1], a[2])
    \/ \E user \in QueryArgs : DirectReferrals(user)
    \/ \E user \in QueryArgs : TotalReach(user)
    \/ \E k \in KValues : TopReferrers(k)
    \/ UniqueReachExpansion
    \/ FlowCentrality
    \/ Stats
    \/ Return

Spec == Init /\ [][Next]_vars

\* ------------------------------------------------------------- simulation

\* NetworkSimulator.__init__
initial_active_referrers == 100
max_referrals_per_referrer == 10
\* ReferralBonusOptimizer.__init__, and the increment the search rounds to.
max_bonus == 10000
BonusStep == 10

\* A probability p is held as the integer p * ProbDen, and so are the running
\* counts and the cumulative totals of the simulation.
ProbDen == 2 ^ ProbBits
ValidProb(p) == 0 <= p /\ p <= ProbDen

\* The inner loop of a day of simulate_expected: every slot id below
\* active_referrers that is still in referrer_counts either is found at
\* capacity, or gains p, adds p to the day's referrals and is marked when it
\* has reached the capacity.  tried is the set of slots that gained p.
ExpectedTrials(p, referrer_counts, active_referrers) ==
    LET present == {id \in 0..(active_referrers - 1) : id \in DOMAIN referrer_counts}
        capacity == max_referrals_per_referrer * ProbDen
        full == {id \in present : referrer_counts[id] >= capacity}
        working == present \ full
        filled == {id \in working : referrer_counts[id] + p >= capacity}
    IN  [daily_referrals |-> p * Cardinality(working),
         referrer_counts |-> [id \in DOMAIN referrer_counts |->
             IF id \in working THEN referrer_counts[id] + p ELSE referrer_counts[id]],
         referrers_to_deactivate |-> full \cup filled,
         tried |-> working]

\* A faulty deactivation that deletes only the first marked slot.
DeactivateFirstOnly(referrer_counts, referrers_to_deactivate) ==
    [id \in {x \in DOMAIN referrer_counts :
                 x \notin referrers_to_deactivate
                     \/ \E y \in referrers_to_deactivate : y < x} |->
        referrer_counts[id]]

\* del referrer_counts[referrer_id] for every marked slot.
Deactivate(referrer_counts, referrers_to_deactivate) ==
    [id \in DOMAIN referrer_counts \ referrers_to_deactivate |-> referrer_counts[id]]

\* One pass of the day loop of simulate_expected: the inner loop, then the
\* slots at capacity are deleted.
ExpectedDay(p, referrer_counts, active_referrers) ==
    LET t == ExpectedTrials(p, referrer_counts, active_referrers)
    IN  [daily_referrals |-> t.daily_referrals,
         referrer_counts |-> Deactivate(t.referrer_counts, t.referrers_to_deactivate)]

\* One day of simulate_expected on its local variables.
ExpectedStep(p, locals) ==
    LET d == ExpectedDay(p, locals.referrer_counts, locals.active_referrers)
        total == locals.current_total + d.daily_referrals
    IN  [referrer_counts |-> d.referrer_counts,
         active_referrers |-> Cardinality(DOMAIN d.referrer_counts),
         current_total |-> total,
         cumulative_referrals |-> Append(locals.cumulative_referrals, total)]

\* The day loop of simulate_expected: n more days from the given local
\* variables.  The days are run as two halves, one after the other, which
\* keeps the evaluation shallow over a thousand days; the test on the first
\* half is always true and only makes its counts and totals the first to be
\* evaluated.
RECURSIVE ExpectedLoop(_, _, _)
ExpectedLoop(p, n, locals) ==
    IF n = 0 THEN locals
    ELSE IF n = 1 THEN ExpectedStep(p, locals)
    ELSE LET half == ExpectedLoop(p, n \div 2, locals)
         IN  IF /\ Len(half.cumulative_referrals) >= 0
                /\ half.referrer_counts = half.referrer_counts
             THEN ExpectedLoop(p, n - (n \div 2), half)
             ELSE locals

\* simulate_expected(p, days): the list of cumulative totals, or the error.
simulate_expected(p, days) ==
    IF ~ValidProb(p) THEN [error |-> "InvalidProbability", result |-> <<>>]
    ELSE IF days < 0 THEN [error |-> "InvalidDuration", result |-> <<>>]
    ELSE IF days = 0 THEN [error |-> "none", result |-> <<>>]
    ELSE [error |-> "none",
          result |-> ExpectedLoop(p, days,
              [referrer_counts |-> [id \in 0..(initial_active_referrers - 1) |-> 0],
               active_referrers |-> initial_active_referrers,
               current_total |-> 0,
               cumulative_referrals |-> <<>>]).cumulative_referrals]

\* simulation_result and simulation_result[-1] >= target, as the optimizer
\* tests it.
MeetsTarget(p, days, target) ==
    LET sim == simulate_expected(p, days).result
    IN  sim # <<>> /\ sim[Len(sim)] >= target * ProbDen

\* ------------------------------------------------------ min_bonus_for_target

\* The caller's adoption_prob.  A step function of the bonus with two steps:
\* v0 below t1, v1 from t1 to below t2, v2 from t2 on (values times ProbDen,
\* possibly outside [0, 1]); or a callable with a state of its own, which
\* answers like a step function in its first calls and returns a value
\* outside [0, 1] from then on; or a value that is not callable; or a function
\* that does not take one argument.
Thresholds == {10, 4995, 5010, 10000}
ProbValues == {0 - 1, 0, ProbDen \div 2, ProbDen, ProbDen + 1}
StepFunctions ==
    {[kind |-> "step", t1 |-> a, t2 |-> b, v0 |-> x, v1 |-> y, v2 |-> z] :
        a \in Thresholds, b \in Thresholds \cup {max_bonus + BonusStep},
        x \in ProbValues, y \in ProbValues, z \in ProbValues}
\* The callables with a state: one step at 5010 between the values 1/2 and
\* 1, steady for the first `steady` calls, `later` from then on.
ChangingFunctions ==
    {[kind |-> "changing", t1 |-> 5010, t2 |-> max_bonus + BonusStep,
      v0 |-> x, v1 |-> y, v2 |-> y, steady |-> n, later |-> z] :
        x \in {ProbDen \div 2, ProbDen}, y \in {ProbDen \div 2, ProbDen},
        n \in 0..MaxSteadyCalls, z \in {0 - 1, ProbDen + 1}}
AdoptionProbs ==
    {f \in StepFunctions : f.t1 < f.t2}
        \cup ChangingFunctions
        \cup {[kind |-> "not_callable"], [kind |-> "bad_arity"]}

\* The value of the step function at a bonus.
adoption_prob(f, bonus) ==
    IF bonus < f.t1 THEN f.v0 ELSE IF bonus < f.t2 THEN f.v1 ELSE f.v2

\* adoption_prob(bonus) as the call that follows `calls` earlier calls.
Invoke(f, bonus, calls) ==
    IF f.kind = "changing" /\ calls >= f.steady THEN f.later
    ELSE adoption_prob(f, bonus)

\* The arguments the callers use: days, target_hires, eps (in hundredths).
DayValues == 0..MaxDays
TargetValues == {0, 50, 150}
EpsValues == {0 - 1, 0, 1, 5}

Returns(kind, value) == [kind |-> kind, value |-> value]

\* A faulty probe that is not rounded down to the increment.
ProbeUnrounded(lo, hi) == (lo + hi) \div 2

\* mid = (left + right) // 2, rounded down to a multiple of 10.
Probe(lo, hi) == (((lo + hi) \div 2) \div BonusStep) * BonusStep

\* A faulty entry that tests eps after it has tried adoption_prob.
EntryToleranceLate(days, target_hires, f, eps) ==
    IF days <= 0 \/ target_hires <= 0 THEN Returns("None", 0)
    ELSE IF f.kind = "not_callable" THEN Returns("NotCallable", 0)
    ELSE IF f.kind = "bad_arity" THEN Returns("InvalidSignature", 0)
    ELSE IF ~ValidProb(Invoke(f, 0, 0))
         THEN Returns("InvalidProbabilityFunction", 0)
    ELSE IF eps <= 0 THEN Returns("InvalidTolerance", 0)
    ELSE IF ~ValidProb(Invoke(f, max_bonus, 1))
         THEN Returns("InvalidProbabilityFunction", max_bonus)
    ELSE IF ~MeetsTarget(Invoke(f, max_bonus, 1), days, target_hires)
         THEN Returns("None", 0)
    ELSE Returns("search", 0)

\* A faulty entry that accepts no tolerance above 0.01.
EntryToleranceBounded(days, target_hires, f, eps) ==
    IF days <= 0 \/ target_hires <= 0 THEN Returns("None", 0)
    ELSE IF f.kind = "not_callable" THEN Returns("NotCallable", 0)
    ELSE IF eps <= 0 \/ eps > 1 THEN Returns("InvalidTolerance", 0)
    ELSE IF f.kind = "bad_arity" THEN Returns("InvalidSignature", 0)
    ELSE IF ~ValidProb(Invoke(f, 0, 0))
         THEN Returns("InvalidProbabilityFunction", 0)
    ELSE IF ~ValidProb(Invoke(f, max_bonus, 1))
         THEN Returns("InvalidProbabilityFunction", max_bonus)
    ELSE IF ~MeetsTarget(Invoke(f, max_bonus, 1), days, target_hires)
         THEN Returns("None", 0)
    ELSE Returns("search", 0)

\* The entry of min_bonus_for_target, up to the start of the search: what it
\* returns or raises there, or "search".  The errors are named after what
\* their messages say: the ValueErrors "must be a callable function"
\* (NotCallable), "Tolerance eps must be positive" (InvalidTolerance) and
\* "... invalid probability" (InvalidProbabilityFunction), and the TypeError
\* "must accept a bonus parameter" (InvalidSignature).
Entry(days, target_hires, f, eps) ==
    IF days <= 0 \/ target_hires <= 0 THEN Returns("None", 0)
    ELSE IF f.kind = "not_callable" THEN Returns("NotCallable", 0)
    ELSE IF eps <= 0 THEN Returns("InvalidTolerance", 0)
    ELSE IF f.kind = "bad_arity" THEN Returns("InvalidSignature", 0)
    ELSE IF ~ValidProb(Invoke(f, 0, 0))
         THEN Returns("InvalidProbabilityFunction", 0)
    ELSE IF ~ValidProb(Invoke(f, max_bonus, 1))
         THEN Returns("InvalidProbabilityFunction", max_bonus)
    ELSE IF ~MeetsTarget(Invoke(f, max_bonus, 1), days, target_hires)
         THEN Returns("None", 0)
    ELSE Returns("search", 0)

\* The bonuses the entry calls adoption_prob with: 0 unless the call is over
\* before the function is tried, and max_bonus if the value at 0 is accepted.
EntryProbes(days, target_hires, f, eps) ==
    IF days <= 0 \/ target_hires <= 0 \/ f.kind = "not_callable" \/ eps <= 0
    THEN {}
    ELSE IF f.kind = "bad_arity" THEN {0}
    ELSE IF ~ValidProb(Invoke(f, 0, 0)) THEN {0}
    ELSE {0, max_bonus}

\* The values adoption_prob returns to the entry, in order: none when the call
\* is over before the function is tried or when the trial call raises.
EntryAnswers(days, target_hires, f, eps) ==
    IF days <= 0 \/ target_hires <= 0 \/ f.kind = "not_callable" \/ eps <= 0
    THEN <<>>
    ELSE IF f.kind = "bad_arity" THEN <<>>
    ELSE IF ~ValidProb(Invoke(f, 0, 0)) THEN <<Invoke(f, 0, 0)>>
    ELSE <<Invoke(f, 0, 0), Invoke(f, max_bonus, 1)>>

MinBonusForTarget(days, target_hires, f, eps) ==
    /\ phase = "idle"
    /\ call' = [days |-> days, target_hires |-> target_hires,
                adoption_prob |-> f, eps |-> eps]
    /\ probed' = EntryProbes(days, target_hires, f, eps)
    /\ returned_probs' = EntryAnswers(days, target_hires, f, eps)
    /\ LET e == Entry(days, target_hires, f, eps)
       IN  IF e.kind = "search"
           THEN /\ phase' = "search"
                /\ left' = 0
                /\ right' = max_bonus
                /\ outcome' = NoCall
           ELSE /\ phase' = "returned"
                /\ outcome' = e
                /\ UNCHANGED <<left, right>>
    /\ UNCHANGED <<network, simulator>>

\* A faulty iteration that does not look at the range of the probability.
SearchStepUnchecked ==
    /\ phase = "search"
    /\ left < right
    /\ LET mid == Probe(left, right)
           adjusted_prob == Invoke(call.adoption_prob, mid, Len(returned_probs))
       IN  /\ IF MeetsTarget(adjusted_prob, call.days, call.target_hires)
              THEN right' = mid /\ left' = left
              ELSE left' = mid + BonusStep /\ right' = right
           /\ UNCHANGED <<phase, outcome>>
    /\ probed' = probed \cup {Probe(left, right)}
    /\ returned_probs' =
          Append(returned_probs,
                 Invoke(call.adoption_prob, Probe(left, right), Len(returned_probs)))
    /\ UNCHANGED <<call, network, simulator>>

\* A faulty iteration that excludes a probe that met the target from the
\* interval.
SearchStepExclusiveRight ==
    /\ phase = "search"
    /\ left < right
    /\ LET mid == Probe(left, right)
           adjusted_prob == Invoke(call.adoption_prob, mid, Len(returned_probs))
       IN  IF ~ValidProb(adjusted_prob)
           THEN /\ phase' = "returned"
                /\ outcome' = Returns("InvalidProbabilityFunction", mid)
                /\ UNCHANGED <<left, right>>
           ELSE /\ IF MeetsTarget(adjusted_prob, call.days, call.target_hires)
                   THEN right' = mid - BonusStep /\ left' = left
                   ELSE left' = mid + BonusStep /\ right' = right
                /\ UNCHANGED <<phase, outcome>>
    /\ probed' = probed \cup {Probe(left, right)}
    /\ returned_probs' =
          Append(returned_probs,
                 Invoke(call.adoption_prob, Probe(left, right), Len(returned_probs)))
    /\ UNCHANGED <<call, network, simulator>>

\* A faulty update that keeps a probe that missed the target in the interval.
NarrowedKeepsProbe(lo, hi, met) ==
    IF met THEN [left |-> lo, right |-> Probe(lo, hi)]
    ELSE [left |-> Probe(lo, hi), right |-> hi]

\* The end of an iteration: right = mid after a probe that met the target,
\* left = mid + 10 after one that missed it.
Narrowed(lo, hi, met) ==
    IF met THEN [left |-> lo, right |-> Probe(lo, hi)]
    ELSE [left |-> Probe(lo, hi) + BonusStep, right |-> hi]

\* One iteration of "while left < right".
SearchStep ==
    /\ phase = "search"
    /\ left < right
    /\ LET mid == Probe(left, right)
           adjusted_prob == Invoke(call.adoption_prob, mid, Len(returned_probs))
       IN  IF ~ValidProb(adjusted_prob)
           THEN /\ phase' = "returned"
                /\ outcome' = Returns("InvalidProbabilityFunction", mid)
                /\ UNCHANGED <<left, right>>
           ELSE /\ LET next == Narrowed(left, right,
                                        MeetsTarget(adjusted_prob, call.days,
                                                    call.target_hires))
                   IN  left' = next.left /\ right' = next.right
                /\ UNCHANGED <<phase, outcome>>
    /\ probed' = probed \cup {Probe(left, right)}
    /\ returned_probs' =
          Append(returned_probs,
                 Invoke(call.adoption_prob, Probe(left, right), Len(returned_probs)))
    /\ UNCHANGED <<call, network, simulator>>

\* A faulty verification that does not look at the range of the probability.
VerifyResultUnchecked ==
    /\ phase = "search"
    /\ ~(left < right)
    /\ phase' = "returned"
    /\ outcome' =
          IF left <= max_bonus
          THEN LET final_prob == Invoke(call.adoption_prob, left, Len(returned_probs))
               IN  IF MeetsTarget(final_prob, call.days, call.target_hires)
                   THEN Returns("bonus", left)
                   ELSE Returns("None", 0)
          ELSE Returns("None", 0)
    /\ probed' = IF left <= max_bonus THEN probed \cup {left} ELSE probed
    /\ returned_probs' =
          IF left <= max_bonus
          THEN Append(returned_probs,
                      Invoke(call.adoption_prob, left, Len(returned_probs)))
          ELSE returned_probs
    /\ UNCHANGED <<call, left, right, network, simulator>>

\* The verification after the loop, and the return.
VerifyResult ==
    /\ phase = "search"
    /\ ~(left < right)
    /\ phase' = "returned"
    /\ outcome' =
          IF left <= max_bonus
          THEN LET final_prob == Invoke(call.adoption_prob, left, Len(returned_probs))
               IN  IF ~ValidProb(final_prob)
                   THEN Returns("InvalidProbabilityFunction", left)
                   ELSE IF MeetsTarget(final_prob, call.days, call.target_hires)
                        THEN Returns("bonus", left)
                        ELSE Returns("None", 0)
          ELSE Returns("None", 0)
    /\ probed' = IF left <= max_bonus THEN probed \cup {left} ELSE probed
    /\ returned_probs' =
          IF left <= max_bonus
          THEN Append(returned_probs,
                      Invoke(call.adoption_prob, left, Len(returned_probs)))
          ELSE returned_probs
    /\ UNCHANGED <<call, left, right, network, simulator>>

\* The caller takes the result; the optimizer is ready for the next call.
ReturnBonus ==
    /\ phase = "returned"
    /\ phase' = "idle"
    /\ call' = NoCall
    /\ left' = 0
    /\ right' = 0
    /\ outcome' = NoCall
    /\ probed' = {}
    /\ returned_probs' = <<>>
    /\ UNCHANGED <<network, simulator>>

\* The search and the verification of min_bonus_for_target from the interval
\* [lo, hi] to the return, after `calls` calls of adoption_prob: what the call
\* returns or raises.
RECURSIVE SearchLoop(_, _, _, _, _, _)
SearchLoop(days, target_hires, f, lo, hi, calls) ==
    IF lo < hi
    THEN LET mid == Probe(lo, hi)
             adjusted_prob == Invoke(f, mid, calls)
         IN  IF ~ValidProb(adjusted_prob)
             THEN Returns("InvalidProbabilityFunction", mid)
             ELSE LET next == Narrowed(lo, hi,
                                       MeetsTarget(adjusted_prob, days, target_hires))
                  IN  SearchLoop(days, target_hires, f, next.left, next.right,
                                 calls + 1)
    ELSE IF lo <= max_bonus
         THEN LET final_prob == Invoke(f, lo, calls)
              IN  IF ~ValidProb(final_prob)
                  THEN Returns("InvalidProbabilityFunction", lo)
                  ELSE IF MeetsTarget(final_prob, days, target_hires)
                       THEN Returns("bonus", lo)
                       ELSE Returns("None", 0)
         ELSE Returns("None", 0)

\* min_bonus_for_target as one function of its arguments: the entry calls
\* adoption_prob twice before the search.
min_bonus_for_target(days, target_hires, f, eps) ==
    LET e == Entry(days, target_hires, f, eps)
    IN  IF e.kind = "search" THEN SearchLoop(days, target_hires, f, 0, max_bonus, 2)
        ELSE e

InitBonus ==
    /\ referrals = EmptyDict
    /\ reverse_referrals = EmptyDict
    /\ users = {}
    /\ setOrder = [users |-> <<>>, reverse_referrals |-> EmptyDict]
    /\ pc = "idle"
    /\ lastCall = NoCall
    /\ OptimizerIdle
    /\ SimulatorIdle
    /\ random_generator = Unseeded

\* The calls a caller can make now: none while a call is running.
BonusArgs ==
    IF phase = "idle"
    THEN DayValues \X TargetValues \X AdoptionProbs \X EpsValues
    ELSE {}

NextBonus ==
    \/ \E a \in BonusArgs : MinBonusForTarget(a[1], a[2], a[3], a[4])
    \/ SearchStep
    \/ VerifyResult
    \/ ReturnBonus

SpecBonus == InitBonus /\ [][NextBonus]_vars

\* ------------------------------------- min_bonus_for_target, slots that fill

\* Horizons long enough for a slot to reach its capacity, and the adoption
\* probabilities 3/8, 1/2, 3/4 and 1, which fill a slot in 27, 20, 14 and 10
\* days.
SaturatedDays == {14, 27}
SaturatedTargets == {1000, 1010}
SaturatedProbs ==
    {(3 * ProbDen) \div 8, ProbDen \div 2, (3 * ProbDen) \div 4, ProbDen}

\* adoption_prob is non-decreasing in the bonus, with values in [0, 1].
NonDecreasing(f) ==
    /\ f.kind = "step"
    /\ ValidProb(f.v0) /\ ValidProb(f.v1) /\ ValidProb(f.v2)
    /\ f.v0 <= f.v1 /\ f.v1 <= f.v2

SaturatedFunctions ==
    {f \in {[kind |-> "step", t1 |-> a, t2 |-> b, v0 |-> x, v1 |-> y, v2 |-> z] :
                a \in {10, 4995}, b \in {5010, 10000},
                x \in SaturatedProbs, y \in SaturatedProbs, z \in SaturatedProbs} :
        NonDecreasing(f)}

SaturatedArgs ==
    IF phase = "idle"
    THEN SaturatedDays \X SaturatedTargets \X SaturatedFunctions \X {1}
    ELSE {}

NextSaturated ==
    \/ \E a \in SaturatedArgs : MinBonusForTarget(a[1], a[2], a[3], a[4])
    \/ SearchStep
    \/ VerifyResult
    \/ ReturnBonus

SpecSaturated == InitBonus /\ [][NextSaturated]_vars

\* ------------------------------------------- simulate_expected, day by day

\* The probabilities the callers of the simulator use: every multiple of
\* 1 / 8 in [0, 1], the smallest probability above 0, the largest below 1,
\* and one value on either side of [0, 1].
SimProbs ==
    {(k * ProbDen) \div 8 : k \in 0..8} \cup {0 - 1, 1, ProbDen - 1, ProbDen + 1}

\* The horizons the callers of the simulations use: up to and beyond the day
\* a slot fills at p = 1, 3/4 and 3/8.
SimDays ==
    {0 - 1, 0, 1, 2, max_referrals_per_referrer, max_referrals_per_referrer + 1, 14, 27}

\* The local variables at the top of the day loop.
StartOfRun ==
    [day |-> 0,
     referrer_counts |-> [id \in 0..(initial_active_referrers - 1) |-> 0],
     active_referrers |-> initial_active_referrers,
     current_total |-> 0,
     cumulative_referrals |-> <<>>,
     daily_referrals |-> 0,
     referrers_to_deactivate |-> {},
     tried |-> {}]

\* Faulty checks that look at days before p.
SimulationEntryDaysFirst(p, days) ==
    IF days < 0 THEN Returns("InvalidDuration", <<>>)
    ELSE IF ~ValidProb(p) THEN Returns("InvalidProbability", <<>>)
    ELSE IF days = 0 THEN Returns("totals", <<>>)
    ELSE Returns("day", <<>>)

\* The checks both simulations start with: what they raise or return there,
\* or "day" when the day loop starts.
SimulationEntry(p, days) ==
    IF ~ValidProb(p) THEN Returns("InvalidProbability", <<>>)
    ELSE IF days < 0 THEN Returns("InvalidDuration", <<>>)
    ELSE IF days = 0 THEN Returns("totals", <<>>)
    ELSE Returns("day", <<>>)

\* A call of simulate or simulate_expected, up to the day loop.
StartSimulation(called) ==
    /\ simPhase = "idle"
    /\ simCall' = called
    /\ LET e == SimulationEntry(called.p, called.days)
       IN  IF e.kind = "day"
           THEN /\ simPhase' = "day"
                /\ simLocals' = StartOfRun
                /\ simResult' = NoCall
           ELSE /\ simPhase' = "returned"
                /\ simLocals' = NoCall
                /\ simResult' = e
    /\ UNCHANGED <<network, optimizer>>

SimulateExpected(p, days) ==
    /\ StartSimulation([op |-> "simulate_expected", p |-> p, days |-> days])
    /\ UNCHANGED random_generator

\* The inner loop of one day of simulate_expected.
ExpectedTrialsOfDay ==
    /\ simPhase = "day"
    /\ simCall.op = "simulate_expected"
    /\ simLocals.day < simCall.days
    /\ LET t == ExpectedTrials(simCall.p, simLocals.referrer_counts,
                               simLocals.active_referrers)
       IN  simLocals' = [simLocals EXCEPT
               !.referrer_counts = t.referrer_counts,
               !.daily_referrals = t.daily_referrals,
               !.referrers_to_deactivate = t.referrers_to_deactivate,
               !.tried = t.tried]
    /\ simPhase' = "deactivate"
    /\ UNCHANGED <<simCall, simResult, random_generator, network, optimizer>>

\* The end of a day of either simulation: the marked slots are deleted, the
\* active count and the totals are updated.
EndOfDay ==
    /\ simPhase = "deactivate"
    /\ LET counts == Deactivate(simLocals.referrer_counts,
                                simLocals.referrers_to_deactivate)
           total == simLocals.current_total + simLocals.daily_referrals
       IN  simLocals' = [simLocals EXCEPT
               !.day = @ + 1,
               !.referrer_counts = counts,
               !.active_referrers = Cardinality(DOMAIN counts),
               !.current_total = total,
               !.cumulative_referrals = Append(@, total)]
    /\ simPhase' = "day"
    /\ UNCHANGED <<simCall, simResult, random_generator, network, optimizer>>

\* The day loop is over: the cumulative totals are returned.
EndOfRun ==
    /\ simPhase = "day"
    /\ simLocals.day = simCall.days
    /\ simPhase' = "returned"
    /\ simResult' = Returns("totals", simLocals.cumulative_referrals)
    /\ UNCHANGED <<simCall, simLocals, random_generator, network, optimizer>>

\* The calls of simulate_expected a caller makes.  The method does not read
\* the generator: it is called on simulators that have not drawn yet.
GeneratorUnused == random_generator.drawn = 0
ExpectedArgs ==
    IF simPhase = "idle" /\ GeneratorUnused THEN SimProbs \X SimDays ELSE {}

\* ---------------------------------------------------- simulate, day by day

\* random() returns a float in [0, 1); the model keeps floor(random() * DrawDen),
\* which decides "random() < p" for every p that is a multiple of 1 / DrawDen.
DrawDen == 65536

\* The first values random.Random(42) and random.Random(123) draw, each as
\* floor(random() * DrawDen).
RandomOfSeed42 ==
    <<41905, 1639, 18024, 14628, 48265, 44348, 58469, 5697, 27651, 1952, 14328, 33118,
      1739, 13031, 42590, 35713, 14446, 38618, 53046, 425, 52810, 45753, 22298, 10189,
      62731, 22059, 6078, 6338, 55541, 39565, 52895, 47823, 35142, 63774, 24807, 36178,
      54355, 40535, 56472, 37837, 46174, 3003, 14935, 18965, 5229, 15256, 6619, 18217,
      41660, 23909, 24260, 13730, 17496, 61384, 42469, 39920, 11215, 47784, 10708, 24867,
      64849, 41943, 36500, 44866, 55237, 50855, 15010, 2103, 20673, 17546, 13826, 61794,
      57433, 20622, 42954, 25928, 59935, 30071, 17359, 16162, 36789, 17219, 38311, 58839,
      26175, 14373, 65374, 33392, 5957, 3087, 7185, 41120, 51909, 27666, 4163, 25009,
      65281, 34676, 63640, 56412, 752, 47233, 44676, 35190, 17486, 42006, 7310, 28492,
      29735, 62509, 57399, 17261, 32806, 11708, 59809, 57050, 19558, 41874, 39909, 10016,
      49971, 35348, 51028, 34757, 37, 21243, 1276, 60889, 57587, 54504, 20153, 3796,
      57541, 62059, 5613, 31849, 4535, 49846, 50189, 8414, 31148, 36031, 17370, 57175,
      27730, 13880, 35343, 47836, 13182, 20428, 65218, 42590, 28711, 33919, 7930, 14725,
      22156, 38555, 15080, 14432, 4652, 41359, 15003, 59337, 56337, 4643, 15597, 43842,
      14040, 8671, 61309, 37423, 30976, 51420, 52920, 12478, 6352, 28249, 27759, 30606,
      47780, 44129, 64498, 6449, 26386, 22236, 56470, 16295, 12465, 29400, 27648, 18254,
      16371, 60507, 29041, 56449, 36066, 3315, 65488, 54789, 63504, 60710, 55620, 10899,
      31826, 14008, 26282, 3842, 24836, 64573, 17380, 51384, 29819, 27722, 62738, 65236,
      36422, 47081, 10144, 19445, 63485, 37957, 35533, 49019, 3746, 38284, 32954, 55883,
      10317, 62965, 5250, 12178, 38996, 44250, 15414, 7856, 58345, 16135, 38962, 40591,
      27474, 38251, 34261, 61256, 13386, 46936, 15642, 25938, 44019, 19660, 20720, 49274,
      4754, 30034, 65434, 65280, 4801, 13969, 17380, 61162, 57728, 57623, 24217, 10338,
      54640, 46107, 40086, 64699, 42858, 512, 53549, 19620, 43475, 61533, 8800, 7564,
      7014, 36256, 17848, 39638, 47029, 13342, 41565, 17300, 32016, 59332, 55450, 6048,
      27759, 18132, 232, 50536, 41753, 17167, 48577, 36154, 28028, 633, 4931, 57875,
      59239, 35755, 54696, 38175, 9705, 8352, 20202, 58915, 52174, 56407, 58911, 13767,
      16353, 6736, 51125, 57942, 26632, 40675, 10128, 60940, 56662, 63976, 53134, 57764,
      1624, 48271, 21770, 61001, 52575, 56627, 53133, 17485, 51601, 7084, 57158, 56268,
      14577, 53515, 30166, 20000, 52123, 14915, 1550, 12656, 21512, 56646, 63366, 18292,
      42040, 26193, 64300, 35141, 61553, 7559, 63596, 11702, 63080, 17397, 7104, 28479,
      47745, 20557, 39728, 33516, 25244, 37787, 16693, 46450, 110, 60658, 35287, 47148,
      48624, 43950, 23869, 4585, 43531, 21639, 20572, 55575, 47169, 19681, 20269, 26764,
      26371, 19376, 8341, 27554, 61627, 44388, 59166, 40338, 19723, 35909, 26, 18803,
      28173, 38009, 42906, 30473, 28977, 14005, 31010, 59059, 52168, 11120, 5557, 33780,
      41480, 21966, 53636, 49226, 44092, 14722, 13050, 1600, 16046, 31138, 55688, 4772,
      27160, 41272, 12742, 45636, 32399, 15989, 42995, 363, 49215, 50465, 6985, 27862,
      11526, 62781, 33944, 3291, 16331, 55596, 29914, 52521, 43750, 64742, 39023, 62261,
      58420, 40150, 47138, 33081, 54432, 35905, 58799, 48736, 31108, 16986, 16203, 41789,
      50188, 34163, 41074, 17996, 5077, 18725, 17807, 20952, 35399, 9068, 15155, 45478,
      46295, 4209, 26712, 35560, 27248, 13555, 27534, 59299, 38278, 45581, 56146, 50174,
      24928, 386, 23052, 49379, 55931, 62484, 27460, 48989, 35791, 39534, 14453, 14380,
      28562, 1902, 22028, 44508, 26497, 10816, 30630, 8364, 40780, 1767, 25822, 36987,
      1776, 42123, 8893, 30257, 3295, 24844, 13871, 21420, 49887, 24846, 49283, 54520,
      16532, 5367, 1270, 35351, 65529, 22935, 42607, 51198, 42713, 49429, 62233, 13065,
      1335, 9986, 8272, 43873, 36960, 14284, 45840, 50259, 10996, 39796, 49016, 7506,
      53693, 63223, 7084, 1682, 20444, 44390, 62794, 25995, 46859, 4980, 45260, 41106,
      6678, 50625, 55724, 39348, 7933, 64477, 51290, 22754, 28074, 24285, 33158, 22362,
      55677, 53892, 6916, 62966, 41653, 54310, 46354, 28540, 48090, 63273, 17700, 52966,
      35269, 31686, 28545, 47908, 17589, 55817, 54442, 5679, 57778, 15981, 30455, 39998,
      24837, 1880, 55768, 11917, 13901, 52286, 22304, 57692, 45952, 18105, 665, 62132,
      5610, 47190, 32019, 49687, 45259, 42329, 32166, 51965, 6098, 14522, 45336, 20067,
      38112, 31015, 34794, 27885, 48885, 21678, 46062, 17754, 16475, 7907, 12621, 7835,
      35118, 49950, 12133, 14180, 31732, 47486, 64002, 34382, 18546, 6588, 12721, 14908,
      11759, 927, 35005, 17977, 63851, 36264, 45705, 8275, 56915, 32170, 57194, 37621,
      30762, 28866, 12082, 3367, 61673, 31308, 53878, 26260, 4855, 41251, 3513, 9777,
      36886, 19912, 65137, 7762, 50098, 39735, 51821, 14790, 34247, 29524, 29014, 56371,
      64882, 20013, 40699, 39952, 48502, 62101, 13617, 13829, 43281, 10292, 11391, 4919,
      175, 29524, 38916, 19087, 15170, 46331, 46070, 29755, 45048, 60549, 51631, 40963,
      43331, 61188, 27861, 35688, 42443, 59533, 54174, 4679, 10873, 20159, 49083, 37303,
      18914, 8149, 45133, 45857, 61779, 32798, 32361, 5271, 2612, 28313, 21123, 16408,
      5985, 63039, 54785, 37696, 62310, 65507, 44058, 17662, 2636, 49562, 30834, 42697,
      60035, 11894, 38360, 41601, 32225, 5979, 22803, 21843, 43917, 56212, 21614, 45460,
      18888, 61944, 53317, 36051, 29807, 20612, 21186, 63582, 26488, 33724, 64757, 43100,
      35559, 27082, 12293, 23709, 49574, 40986, 49806, 13340, 35993, 60795, 28712, 45760,
      7957, 63776, 39903, 15682, 10379, 36099, 36192, 6108, 65028, 59829, 30241, 7698,
      54535, 32661, 46963, 33349, 17919, 54704, 64241, 15973, 36127, 25138, 60415, 33308,
      57627, 56624, 18104, 51773, 27193, 61226, 33275, 53775, 18536, 19566, 38465, 65464,
      32089, 9738, 35296, 22618, 36170, 35614, 29841, 21088, 12363, 45711, 37473, 15306,
      50826, 2860, 48804, 46217, 53176, 25302, 43495, 53788, 64278, 32461, 2426, 32918,
      38678, 56996, 57290, 28855, 34468, 29945, 47346, 26868, 42911, 10116, 30768, 63517,
      22187, 45397, 42587, 55821, 55859, 56317, 24904, 20752, 47101, 49768, 57172, 2352,
      4484, 41363, 60354, 65367, 48940, 28440, 6451, 41533, 57185, 29076, 45482, 59206,
      3014, 52176, 19226, 24565, 9540, 34810, 37088, 51938, 11140, 5175, 57071, 40613,
      15783, 59823, 9379, 30221, 16644, 16733, 615, 52732, 59061, 44407, 10353, 28949,
      22646, 38507, 41873, 27807, 16390, 55397, 13055, 25211, 31667, 15545, 37481, 37670,
      65057, 19348, 64090, 43137, 17988, 37088, 44944, 48802, 3214, 39741, 32553, 59254,
      18756, 52354, 39784, 23089, 41721, 40690, 44417, 47246, 43200, 54941, 41172, 59205,
      42358, 20246, 28889, 37982, 47995, 5906, 19340, 48986, 11510, 8661, 35350, 63667,
      34789, 59866, 54425, 16840, 54046, 31578, 52854, 48926, 22198, 7547, 63104, 9224,
      63340, 56370, 47462, 64221, 63390, 52729, 23971, 51818, 912, 35164, 29804, 44094,
      44062, 38309, 53897, 61622, 7100, 15323, 1640, 57949, 36792, 59982, 14507, 4142,
      53992, 59597, 19804, 26758, 9160, 62014, 19946, 32284, 6369, 58147, 8890, 29729,
      43940, 48702, 61995, 27467, 48645, 10126, 27189, 6489, 32069, 26746, 62358, 2144,
      24283, 29057, 62295, 56062, 6511, 44936, 35682, 64083, 23506, 26092, 12439, 8005,
      55576, 29800, 43435, 42054, 39134, 1399, 51563, 15962, 8252, 37000, 4496, 50145,
      13576, 14152, 56996, 21532, 9670, 59017, 185, 56256, 9482, 8519, 16426, 11435,
      43323, 1689, 973, 51772, 15593, 21218, 11419, 3434, 48609, 34477, 48867, 31211,
      50988, 33635, 7146, 33019, 61958, 2841, 51329, 56818, 34173, 30018, 63178, 3986,
      31390, 26320, 44964, 32130, 59618, 4816, 5294, 39865, 4304, 18023, 41489, 35937,
      21311, 65183, 34770, 29734, 39677, 6499, 45991, 55888, 42658, 50394, 47240, 14091,
      29593, 14974, 22212, 29720, 27262, 6231, 27968, 43588, 24530, 10003, 60488, 4399,
      54511, 6109, 6328, 48417, 53200, 36462, 38434, 36804, 21603, 8010, 23173, 43603,
      49170, 56891, 47255, 63464, 39348, 23045, 37874, 13942, 43039, 14696, 7092, 55402,
      24088, 49978, 37624, 52902, 55388, 63867, 53636, 40211, 42119, 1720, 60888, 54359,
      17527, 11823, 46052, 20249, 22270, 400, 57007, 37114, 26265, 9297, 41495, 2009,
      48897, 14098, 27514, 22340, 24251, 47290, 50910, 37197, 5567, 3447, 10316, 40490,
      44169, 17832, 43380, 31828, 28969, 17902, 49475, 7459, 28174, 18562, 44465, 31891,
      43721, 2976, 25903, 39277, 503, 19753, 13843, 8993, 16745, 21503, 506, 48956,
      11514, 24917, 46115, 32785, 54614, 52835, 4723, 56476, 2772, 1228, 60369, 56499,
      37732, 37578, 46497, 27373, 7548, 1366, 21284, 52515, 40509, 54527, 60278, 5775,
      55344, 15945, 38592, 34338, 25936, 20334, 22250, 21827, 11018, 33455, 7472, 33420,
      59370, 22896, 47669, 53670, 53414, 15484, 9597, 12928, 39478, 49821, 42959, 11609,
      50649, 32382, 49443, 49799, 29419, 60565, 36994, 41634, 40928, 56639, 41105, 9893,
      4475, 28980, 19845, 18001, 3681, 33248, 20342, 29616, 3728, 54506, 5028, 56639,
      56052, 40305, 33231, 30324, 36327, 51892, 58712, 29473, 53072, 42718, 21071, 31170,
      9886, 4054, 6783, 58925, 22507, 46813, 33066, 11308, 16236, 28688, 28797, 34258,
      10403, 24435, 18539, 26789, 22175, 39183, 51722, 42421, 4319, 6193, 44458, 18621,
      47430, 43028, 59398, 57231, 21847, 38190, 9268, 22925, 63418, 45775, 25687, 38996,
      61472, 20288, 24686, 51882, 53292, 43916, 54326, 48416, 44919, 34497, 42337, 27748,
      23712, 23763, 11813, 14037, 62106, 31868, 14846, 9015, 5057, 55340, 6628, 50520,
      54730, 57912, 2473, 22070, 50220, 8588, 24688, 10633, 54483, 50534, 53021, 10848,
      28683, 26926, 44326, 15566, 29111, 18673, 49056, 29420, 34996, 20281, 52993, 30737,
      54729, 24106, 62071, 64516, 30256, 18466, 25026, 34567, 63325, 53535, 52511, 9070,
      16384, 42020, 57286, 36342, 6723, 55436, 55782, 18681, 50011, 17877, 59330, 9656,
      28670, 62024, 14551, 29565, 22910, 1747, 3490, 32899, 15451, 65177, 24570, 1847,
      61002, 54996, 42595, 51863, 9017, 18800, 54379, 45617, 9095, 46238, 29399, 344,
      5192, 16772, 54720, 35966, 47660, 34588, 7286, 18881>>

RandomOfSeed123 ==
    <<3431, 5713, 26688, 7058, 59060, 2500, 35140, 21770, 55842, 10463, 22099, 21875,
      16067, 109, 28591, 5741, 39164, 4579, 20673, 29381, 59336, 6079, 9317, 51778,
      1391, 59713, 37578, 17388, 54908, 50383, 22509, 52526, 13556, 39905, 34542, 53040,
      20661, 26098, 50415, 33603, 44881, 41835, 43690, 58333, 31859, 43808, 24544, 2086,
      49425, 11892, 53751, 59876, 43127, 11149, 22080, 25637, 4803, 29934, 37563, 22027,
      12390, 5777, 41177, 840, 23063, 15016, 34864, 47426, 59582, 41864, 64998, 63180,
      41287, 15294, 31707, 11638, 65008, 29130, 49260, 2892, 8829, 12660, 16800, 23071,
      17821, 28460, 27548, 7118, 4103, 23269, 5818, 28390, 561, 35114, 4815, 45495,
      26490, 64575, 17205, 30966, 49205, 21943, 22830, 41885, 63549, 57925, 27462, 47036,
      44502, 24386, 15398, 5136, 57600, 3745, 33993, 35227, 9577, 42987, 60019, 50864,
      25510, 8288, 63892, 33888, 41262, 52578, 25313, 4066, 8913, 43807, 22907, 57086,
      48507, 64254, 43832, 19910, 51846, 1851, 34182, 57107, 33732, 9002, 32776, 35747,
      24182, 58552, 22287, 17809, 33180, 13321, 21106, 26094, 61489, 5266, 12916, 13074,
      65225, 58380, 12724, 37003, 5577, 20776, 22357, 35237, 60907, 53019, 35008, 51516,
      31716, 47878, 50918, 16833, 54576, 37876, 31858, 25940, 14689, 32850, 8264, 41601,
      58868, 51807, 39921, 32405, 45598, 8016, 3436, 56468, 23713, 43840, 27575, 23505,
      50481, 22481, 49395, 53770, 11840, 64043, 4092, 27179, 32799, 54352, 11460, 36636,
      24151, 60403, 8016, 17394, 53726, 21117, 61880, 3381, 25455, 7042, 37586, 63119,
      21279, 42391, 17426, 28784, 37455, 16280, 45250, 32833, 59340, 18023, 62577, 11941,
      1304, 43267, 48087, 31281, 2802, 65413, 9276, 57046, 58427, 14474, 56619, 30369,
      58955, 58164, 50744, 18920, 38017, 64311, 21012, 25329, 45088, 4104, 16604, 11011,
      27266, 27851, 39784, 32558, 10798, 3055, 34391, 50060, 60744, 55026, 19841, 56732,
      30630, 18510, 6039, 29013, 35714, 18304, 12799, 61662, 4441, 61564, 26634, 51872,
      7271, 37356, 49918, 28574, 23361, 32323, 12744, 13869, 15814, 2461, 59639, 4812,
      60760, 718, 43005, 35843, 2742, 61699, 47891, 57614, 28551, 19096, 12184, 7387,
      43971, 53857, 13894, 1701, 23693, 10018, 14741, 14552, 43412, 28482, 36731, 25564,
      64465, 32567, 2791, 9124, 47921, 59809, 8256, 30153, 56501, 36162, 1141, 34135,
      18923, 13983, 61382, 6928, 54375, 49349, 38851, 21290, 5424, 43826, 62863, 11783,
      8267, 31140, 55794, 348, 51697, 5656, 2116, 9595, 29989, 61404, 43339, 3907,
      9941, 30234, 5917, 43800, 23523, 62657, 53719, 53536, 15409, 28265, 44013, 5859,
      625, 21455, 26261, 51569, 53389, 3798, 4233, 60606, 18878, 8199, 51945, 51444,
      39629, 50293, 56334, 55911, 17253, 27582, 64516, 24100, 41031, 55476, 57462, 39495,
      22928, 45235, 215, 22973, 49732, 42375, 5235, 47160, 39977, 29145, 6856, 39081,
      48862, 13023, 41609, 4627, 13457, 23479, 50988, 18566, 58347, 64428, 10705, 1750,
      47757, 50093, 59042, 44070, 51124, 23954, 6606, 65530, 39629, 17724, 58508, 4822,
      3721, 16701, 8525, 26918, 40702, 34040, 36288, 7823, 35057, 63908, 21613, 52379,
      41811, 49942, 43119, 28803, 15399, 6132, 7421, 6614, 50289, 54874, 53583, 57986,
      23512, 44177, 53757, 8670, 22, 13740, 60015, 52931, 8496, 55520, 11445, 17477,
      11019, 57929, 54268, 4254, 1561, 51854, 25800, 37252, 41819, 35625, 12320, 20337,
      39154, 51398, 22165, 1485, 9520, 18670, 62991, 27982, 32603, 27703, 56760, 52470,
      10089, 43651, 36036, 58819, 4111, 37898, 12440, 37312, 53554, 28444, 35048, 23929,
      61920, 56518, 5877, 2800, 35057, 20411, 2047, 44250, 10235, 42193, 6462, 46787,
      54883, 52243, 57865, 40321, 21873, 11956, 43113, 63849, 43127, 6811, 2851, 9976,
      52618, 8908, 46263, 38255, 23906, 27577, 17248, 26933, 12060, 34677, 43307, 36027,
      64967, 60623, 58345, 39577, 9438, 49734, 61835, 39362, 29756, 42942, 41085, 54242,
      31418, 24357, 52953, 30500, 42460, 18626, 35291, 36875, 38436, 51517, 22192, 11087,
      24569, 38399, 32167, 24408, 27615, 11613, 6863, 43077, 4773, 37605, 63917, 33192,
      46715, 50039, 31988, 34451, 15186, 41099, 34420, 21970, 61458, 41394, 27279, 59155,
      50032, 63575, 22140, 31515, 15419, 47762, 55091, 45275, 46607, 9418, 61164, 9194,
      52903, 10960, 44950, 48781, 11719, 36579, 16320, 62443, 11969, 64419, 32776, 343,
      10208, 22949, 44348, 41842, 14732, 27975, 55617, 30957, 20878, 41803, 56674, 45692,
      64244, 29059, 948, 2490, 63689, 23929, 51007, 63610, 35929, 44129, 36836, 47807,
      53882, 45559, 43619, 2140, 8301, 29411, 53457, 54818, 28086, 54914, 22818, 42534,
      8194, 62552, 23360, 20365, 4685, 13489, 3074, 36595, 64013, 658, 31854, 27553,
      46155, 4201, 12349, 22877, 21567, 27177, 32001, 25946, 23532, 61487, 6718, 16853,
      45378, 24129, 12453, 56723, 27672, 42290, 60388, 60889, 28624, 29319, 2646, 3378,
      61353, 62042, 25728, 54605, 47945, 24102, 4135, 39694, 7935, 29123, 32773, 2160,
      13409, 18809, 46067, 9942, 39647, 23638, 35021, 56732, 40346, 54943, 13630, 15776,
      31186, 14525, 20457, 50892, 12903, 31608, 21680, 41054, 30359, 59638, 28597, 59867,
      5198, 25798, 30538, 6458, 57117, 55333, 25085, 36949, 34759, 15279, 3759, 45623,
      51769, 29107, 39945, 39806, 50926, 11466, 34096, 59509, 27344, 48266, 5432, 25269,
      4140, 30525, 41462, 8838, 11025, 45849, 8411, 63219, 52322, 27259, 10506, 17578,
      15204, 53509, 19444, 38540, 3223, 56838, 60913, 50324, 40049, 1687, 10384, 21826,
      43634, 10569, 2589, 15949, 22769, 5476, 59820, 28516, 6193, 36455, 3324, 43061,
      42890, 27161, 10208, 44033, 11195, 50124, 38135, 48359, 62723, 40336, 20376, 28303,
      39388, 59927, 9418, 14996, 48759, 51813, 33146, 64838, 38505, 61846, 12932, 34696,
      15230, 58730, 7779, 19834, 11614, 1068, 47121, 41094, 43808, 15158, 41792, 15187,
      40659, 60267, 65217, 5111, 17580, 36809, 17433, 63266, 40457, 64345, 580, 46646,
      5932, 33615, 64036, 4653, 30468, 33079, 28577, 20324, 49850, 41753, 9268, 21898,
      28904, 49051, 30655, 19818, 45650, 31446, 22989, 55780, 15124, 23488, 60668, 16678,
      37628, 6046, 602, 46771, 24522, 29504, 25388, 11690, 11759, 44250, 13565, 29695,
      9413, 50989, 35940, 48287, 28069, 24746, 16932, 37554, 54781, 63718, 25919, 46036,
      45041, 370, 60364, 64471, 14775, 39177, 10142, 39260, 29150, 46744, 20992, 46613,
      42768, 22070, 64384, 3549, 1497, 8734, 17751, 32212, 43891, 42816, 10432, 34779,
      11342, 18121, 26300, 31091, 25013, 27484, 63810, 45482, 21302, 8855, 15216, 50396,
      65512, 19803, 6047, 24014, 63207, 18203, 50179, 35616, 31545, 2639, 15674, 30428,
      28050, 6746, 32396, 59605, 40709, 40752, 51460, 64015, 8602, 12649, 1302, 62877,
      4744, 35249, 31475, 41063, 19074, 61110, 21252, 25708, 41142, 13029, 40776, 54168,
      2287, 44409, 57783, 41046, 19615, 56415, 18804, 35315, 25630, 8282, 10002, 62245,
      41541, 62721, 6970, 28706, 3681, 49241, 24244, 49667, 37000, 42475, 25607, 47559,
      49109, 42973, 11225, 12839, 50355, 56322, 19866, 26997, 29019, 41005, 13282, 21664,
      60459, 38241, 50195, 16675, 41033, 24189, 38298, 10368, 32575, 4254, 8708, 41927,
      48521, 43686, 25780, 32310, 13824, 21531, 13730, 14960, 57182, 8321, 16221, 8965,
      38159, 25066, 49064, 60376, 4184, 63605, 38833, 46265, 58889, 62647, 43786, 16178,
      56548, 22368, 13354, 25666, 36854, 59585, 35229, 20380, 50759, 64147, 45419, 55029,
      27748, 21449, 23446, 47463, 38212, 2451, 49734, 41889, 50943, 64427, 46882, 1208,
      1207, 61234, 3736, 4108, 46911, 6252, 22007, 12477, 16745, 12434, 16141, 1508,
      4588, 14245, 21599, 9037, 10798, 62495, 48620, 38069, 43927, 15588, 27710, 30236,
      43261, 23004, 57022, 57388, 9350, 29563, 34956, 53803, 9168, 14612, 10752, 57067,
      17417, 40897, 6224, 15400, 44654, 24422, 23777, 57577, 15667, 60094, 924, 4159,
      48392, 18326, 50600, 45332, 42697, 33845, 16071, 55772, 59918, 56374, 13719, 28630,
      2537, 51273, 3614, 7075, 58997, 25608, 34298, 45835, 47012, 687, 36006, 43478,
      63044, 47689, 10004, 62493, 56174, 37162, 40831, 37952, 45619, 56034, 4126, 61505,
      29286, 56709, 17988, 32858, 17159, 43629, 52484, 30351, 8049, 30447, 9035, 64901,
      40726, 35199, 38982, 20274, 48528, 59125, 57932, 41465, 57001, 37698, 18929, 13005,
      14694, 42466, 20617, 6131, 57366, 16257, 25894, 45833, 20281, 35154, 59853, 46207,
      18421, 57525, 38761, 48050, 47543, 7047, 44760, 9096, 58068, 9093, 43983, 30216,
      62722, 56425, 17967, 52548, 5579, 40126, 54958, 61124, 22142, 20701, 44996, 19376,
      16185, 64102, 37152, 3538, 34369, 24310, 50612, 41351, 17165, 55337, 19264, 43917,
      14111, 4671, 14279, 44506, 33570, 44859, 8613, 12091, 5303, 23363, 15426, 62326,
      53368, 49299, 510, 33014, 505, 46935, 28708, 11209, 19410, 19622, 62551, 3662,
      58627, 64123, 57919, 14786, 56044, 23873, 55189, 9333, 64617, 58529, 48862, 54416,
      37641, 12674, 30128, 11032, 53276, 9683, 9519, 63086, 36279, 35904, 35009, 33960,
      3880, 5897, 30466, 31400, 53776, 63468, 54907, 33541, 11918, 27634, 31900, 1623,
      45426, 64809, 16892, 58449, 25146, 41379, 48722, 37771, 35117, 11359, 59208, 51513,
      32737, 26373, 9124, 39971, 51410, 58677, 30140, 18532, 9297, 7346, 14793, 38322,
      45998, 57679, 58314, 24320, 47325, 13316, 32764, 63143, 26779, 50118, 49503, 53816,
      39160, 49363, 62594, 29756, 13539, 25003, 37214, 39513, 22664, 42845, 12953, 14381,
      51046, 42042, 53025, 34794, 48717, 11365, 27026, 49441, 48967, 12263, 6753, 20447,
      17077, 43631, 932, 43701, 26665, 53725, 42592, 55940, 37252, 62671, 64739, 62792,
      25420, 63202, 50875, 61765, 60105, 44036, 23791, 59061, 3524, 55830, 347, 26647,
      11383, 42724, 61133, 14531, 43448, 38610, 17423, 10631, 35127, 34132, 65386, 35986,
      19742, 18622, 1950, 4199, 3923, 47784, 61812, 59437, 35459, 2844, 63274, 65240,
      33297, 40058, 33975, 8346, 17380, 22011, 27225, 40909, 36589, 58614, 14088, 37863,
      63957, 16115, 11073, 17717, 40489, 3431, 22158, 34049, 2065, 31515, 58645, 23961,
      23326, 21187, 36041, 23862, 39215, 48067, 7592, 44105, 59276, 11681, 64032, 16671,
      33575, 21943, 43696, 43369, 30964, 46380, 49152, 36784>>

\* The seeds NetworkSimulator is built with.
RandomSeeds == {42, 123}

\* The values the generator of a seed draws, in the order it draws them.
RandomStream(seed) == IF seed = 42 THEN RandomOfSeed42 ELSE RandomOfSeed123

\* self.random_generator.random() < p for the n-th value (counted from 1) the
\* generator draws from now on.
DrawBelow(generator, n, p) ==
    RandomStream(generator.seed)[generator.drawn + n] * ProbDen < p * DrawDen

\* The horizons given to simulate: up to the day after a slot can fill.
SimulateDays ==
    {0 - 1, 0, 1, 2, max_referrals_per_referrer, max_referrals_per_referrer + 1}

\* The probabilities given to simulate: those given to simulate_expected.  At
\* 3/4 and above some slots fill within the horizons and others do not.
SimulateProbs == SimProbs

\* The position of a slot among the slots that draw on this day: the loop
\* visits list(referrer_counts.keys()), the ids in ascending order, and every
\* slot below the capacity draws once.
DrawOf(working, id) == Cardinality({other \in working : other <= id})

\* A faulty inner loop that counts a referral when the draw is not below p.
SimulateTrialsInverted(p, referrer_counts, generator) ==
    LET full == {id \in DOMAIN referrer_counts :
                    referrer_counts[id] >= max_referrals_per_referrer}
        working == DOMAIN referrer_counts \ full
        won == {id \in working : ~DrawBelow(generator, DrawOf(working, id), p)}
        filled == {id \in won : referrer_counts[id] + 1 >= max_referrals_per_referrer}
    IN  [daily_referrals |-> Cardinality(won),
         referrer_counts |-> [id \in DOMAIN referrer_counts |->
             IF id \in won THEN referrer_counts[id] + 1 ELSE referrer_counts[id]],
         referrers_to_deactivate |-> full \cup filled,
         tried |-> working,
         generator |-> [generator EXCEPT !.drawn = @ + Cardinality(working)]]

\* A faulty inner loop that lets a slot at capacity draw once more.
SimulateTrialsLate(p, referrer_counts, generator) ==
    LET full == {id \in DOMAIN referrer_counts :
                    referrer_counts[id] > max_referrals_per_referrer}
        working == DOMAIN referrer_counts \ full
        won == {id \in working : DrawBelow(generator, DrawOf(working, id), p)}
        filled == {id \in won : referrer_counts[id] + 1 > max_referrals_per_referrer}
    IN  [daily_referrals |-> Cardinality(won),
         referrer_counts |-> [id \in DOMAIN referrer_counts |->
             IF id \in won THEN referrer_counts[id] + 1 ELSE referrer_counts[id]],
         referrers_to_deactivate |-> full \cup filled,
         tried |-> working,
         generator |-> [generator EXCEPT !.drawn = @ + Cardinality(working)]]

\* The inner loop of a day of simulate: every slot of referrer_counts either
\* is found at capacity, or draws the generator's next value.  A slot whose
\* draw is below p gains 1, adds 1 to the day's referrals and is marked when
\* it has reached the capacity.  tried is the set of slots that drew.
SimulateTrials(p, referrer_counts, generator) ==
    LET full == {id \in DOMAIN referrer_counts :
                    referrer_counts[id] >= max_referrals_per_referrer}
        working == DOMAIN referrer_counts \ full
        won == {id \in working : DrawBelow(generator, DrawOf(working, id), p)}
        filled == {id \in won : referrer_counts[id] + 1 >= max_referrals_per_referrer}
    IN  [daily_referrals |-> Cardinality(won),
         referrer_counts |-> [id \in DOMAIN referrer_counts |->
             IF id \in won THEN referrer_counts[id] + 1 ELSE referrer_counts[id]],
         referrers_to_deactivate |-> full \cup filled,
         tried |-> working,
         generator |-> [generator EXCEPT !.drawn = @ + Cardinality(working)]]

\* simulate(p, days), up to the day loop.
Simulate(p, days) ==
    /\ StartSimulation([op |-> "simulate", p |-> p, days |-> days])
    /\ UNCHANGED random_generator

\* The inner loop of one day of simulate.
SimulateTrialsOfDay ==
    /\ simPhase = "day"
    /\ simCall.op = "simulate"
    /\ simLocals.day < simCall.days
    /\ LET t == SimulateTrials(simCall.p, simLocals.referrer_counts, random_generator)
       IN  /\ simLocals' = [simLocals EXCEPT
                  !.referrer_counts = t.referrer_counts,
                  !.daily_referrals = t.daily_referrals,
                  !.referrers_to_deactivate = t.referrers_to_deactivate,
                  !.tried = t.tried]
           /\ random_generator' = t.generator
    /\ simPhase' = "deactivate"
    /\ UNCHANGED <<simCall, simResult, network, optimizer>>

\* The calls of simulate a caller makes: on a seeded simulator that has made
\* at most MaxDrawn draws, with horizons the tabulated draws suffice for.
SimulateArgs ==
    IF /\ simPhase = "idle"
       /\ random_generator.seed \in RandomSeeds
       /\ random_generator.drawn <= MaxDrawn
    THEN SimulateProbs \X
             {days \in SimulateDays :
                 random_generator.drawn + (days * initial_active_referrers)
                     <= Len(RandomStream(random_generator.seed))}
    ELSE {}

\* ------------------------------------------------------------ days_to_target

\* The upper bound of the search over days.
max_days == 1000

\* The targets the callers of days_to_target use.
TargetTotals == {0 - 1, 0, 1, 100, 1000, 1001, 1050, 1051}

\* A faulty comparison that wants the target exceeded.
ReachesTotalStrictly(p, days, target_total) ==
    LET sim == simulate_expected(p, days).result
    IN  sim # <<>> /\ sim[Len(sim)] > target_total * ProbDen

\* simulation_result and simulation_result[-1] >= target_total.
ReachesTotal(p, days, target_total) ==
    LET sim == simulate_expected(p, days).result
    IN  sim # <<>> /\ sim[Len(sim)] >= target_total * ProbDen

\* A faulty entry that tests p before target_total.
DaysToTargetProbabilityFirst(p, target_total) ==
    /\ simPhase = "idle"
    /\ simCall' = [op |-> "days_to_target", p |-> p, target_total |-> target_total]
    /\ IF p <= 0
       THEN /\ simPhase' = "returned"
            /\ simResult' = Returns("None", 0)
            /\ simLocals' = [left |-> 0, right |-> 0, simulations |-> 0]
       ELSE IF target_total <= 0
       THEN /\ simPhase' = "returned"
            /\ simResult' = Returns("days", 0)
            /\ simLocals' = [left |-> 0, right |-> 0, simulations |-> 0]
       ELSE /\ simPhase' = "search"
            /\ simResult' = NoCall
            /\ simLocals' = [left |-> 0, right |-> max_days, simulations |-> 0]
    /\ UNCHANGED <<random_generator, network, optimizer>>

\* days_to_target(p, target_total), up to the start of the search.
DaysToTarget(p, target_total) ==
    /\ simPhase = "idle"
    /\ simCall' = [op |-> "days_to_target", p |-> p, target_total |-> target_total]
    /\ IF target_total <= 0
       THEN /\ simPhase' = "returned"
            /\ simResult' = Returns("days", 0)
            /\ simLocals' = [left |-> 0, right |-> 0, simulations |-> 0]
       ELSE IF p <= 0
       THEN /\ simPhase' = "returned"
            /\ simResult' = Returns("None", 0)
            /\ simLocals' = [left |-> 0, right |-> 0, simulations |-> 0]
       ELSE /\ simPhase' = "search"
            /\ simResult' = NoCall
            /\ simLocals' = [left |-> 0, right |-> max_days, simulations |-> 0]
    /\ UNCHANGED <<random_generator, network, optimizer>>

\* One iteration of "while left < right" of days_to_target.  simulations
\* counts the calls of simulate_expected.
DaysSearchStep ==
    /\ simPhase = "search"
    /\ simLocals.left < simLocals.right
    /\ LET mid == (simLocals.left + simLocals.right) \div 2
           error == simulate_expected(simCall.p, mid).error
       IN  IF error # "none"
           THEN /\ simPhase' = "returned"
                /\ simResult' = Returns(error, 0)
                /\ simLocals' = [simLocals EXCEPT !.simulations = @ + 1]
           ELSE /\ simLocals' =
                     IF ReachesTotal(simCall.p, mid, simCall.target_total)
                     THEN [simLocals EXCEPT !.right = mid, !.simulations = @ + 1]
                     ELSE [simLocals EXCEPT !.left = mid + 1, !.simulations = @ + 1]
                /\ UNCHANGED <<simPhase, simResult>>
    /\ UNCHANGED <<simCall, random_generator, network, optimizer>>

\* The verification after the loop of days_to_target, and the return.
DaysVerify ==
    /\ simPhase = "search"
    /\ ~(simLocals.left < simLocals.right)
    /\ simPhase' = "returned"
    /\ IF simLocals.left <= max_days
       THEN LET error == simulate_expected(simCall.p, simLocals.left).error
            IN  /\ simResult' =
                      IF error # "none" THEN Returns(error, 0)
                      ELSE IF ReachesTotal(simCall.p, simLocals.left, simCall.target_total)
                           THEN Returns("days", simLocals.left)
                           ELSE Returns("None", 0)
                /\ simLocals' = [simLocals EXCEPT !.simulations = @ + 1]
       ELSE /\ simResult' = Returns("None", 0)
            /\ UNCHANGED simLocals
    /\ UNCHANGED <<simCall, random_generator, network, optimizer>>

\* The caller takes the result; the simulator is ready for the next call.
SimulatorReturn ==
    /\ simPhase = "returned"
    /\ simPhase' = "idle"
    /\ simCall' = NoCall
    /\ simLocals' = NoCall
    /\ simResult' = NoCall
    /\ UNCHANGED <<random_generator, network, optimizer>>

DaysArgs ==
    IF simPhase = "idle" /\ GeneratorUnused THEN SimProbs \X TargetTotals ELSE {}

NextSimulator ==
    \/ \E a \in ExpectedArgs : SimulateExpected(a[1], a[2])
    \/ ExpectedTrialsOfDay
    \/ \E a \in SimulateArgs : Simulate(a[1], a[2])
    \/ SimulateTrialsOfDay
    \/ EndOfDay
    \/ EndOfRun
    \/ \E a \in DaysArgs : DaysToTarget(a[1], a[2])
    \/ DaysSearchStep
    \/ DaysVerify
    \/ SimulatorReturn

\* A simulator built with one of the seeds, and an idle optimizer and store.
InitSimulator ==
    /\ referrals = EmptyDict
    /\ reverse_referrals = EmptyDict
    /\ users = {}
    /\ setOrder = [users |-> <<>>, reverse_referrals |-> EmptyDict]
    /\ pc = "idle"
    /\ lastCall = NoCall
    /\ OptimizerIdle
    /\ SimulatorIdle
    /\ random_generator \in {Seeded(seed) : seed \in RandomSeeds}

SpecSimulator == InitSimulator /\ [][NextSimulator]_vars

\* ------------------------------------------------- the two binary searches

\* The calls that enter the search of min_bonus_for_target or end at its
\* feasibility test: the longest horizon, the largest target, a positive
\* eps, and the step functions whose values are 1/2, 1 or above 1.
SearchFunctions ==
    {f \in StepFunctions :
        /\ f.t1 < f.t2
        /\ {f.v0, f.v1, f.v2} \subseteq {ProbDen \div 2, ProbDen, ProbDen + 1}}

\* The calls of the two searches a caller can make now: one call at a time.
SearchBonusArgs ==
    IF phase = "idle" /\ simPhase = "idle"
    THEN {MaxDays} \X {150} \X SearchFunctions \X {1}
    ELSE {}
SearchDaysArgs == IF phase = "idle" THEN DaysArgs ELSE {}

NextSearches ==
    \/ \E a \in SearchBonusArgs : MinBonusForTarget(a[1], a[2], a[3], a[4])
    \/ SearchStep
    \/ VerifyResult
    \/ ReturnBonus
    \/ \E a \in SearchDaysArgs : DaysToTarget(a[1], a[2])
    \/ DaysSearchStep
    \/ DaysVerify
    \/ SimulatorReturn

\* A call that has started keeps running: the interpreter executes the next
\* iteration of its loop and then the statements after the loop, and hands
\* the result to the caller.  While a search runs only its own iteration and
\* verification can take a step, so weak fairness of these two is written
\* out as: the search is left again and again, or steps of the running
\* search occur again and again.
SearchKeepsRunning ==
    []<>(phase # "search") \/ []<><<phase = "search" /\ optimizer' # optimizer>>_vars
DaysSearchKeepsRunning ==
    \/ []<>(simPhase # "search")
    \/ []<><<simPhase = "search" /\ simulator' # simulator>>_vars

SpecSearches ==
    /\ InitBonus
    /\ [][NextSearches]_vars
    /\ SearchKeepsRunning
    /\ DaysSearchKeepsRunning
    /\ WF_vars(ReturnBonus)
    /\ WF_vars(SimulatorReturn)

\* --------------------------------------------- vocabulary of the properties

\* The edges as the reverse index holds them.
Edges == {e \in (DOMAIN reverse_referrals) \X Ids : e[2] \in reverse_referrals[e[1]]}

\* Following referrer links from u never comes back to a user already seen.
RECURSIVE WalkEnds(_, _)
WalkEnds(u, seen) ==
    IF u \notin DOMAIN referrals THEN TRUE
    ELSE IF referrals[u] \in seen THEN FALSE
    ELSE WalkEnds(referrals[u], seen \cup {referrals[u]})

\* The number of referrer links that lead from t up to s; -1 when s is not
\* t or one of its ancestors.
RECURSIVE HopsUp(_, _, _)
HopsUp(t, s, seen) ==
    IF t = s THEN 0
    ELSE IF t \notin DOMAIN referrals \/ referrals[t] \in seen THEN -1
    ELSE LET h == HopsUp(referrals[t], s, seen \cup {referrals[t]})
         IN  IF h < 0 THEN -1 ELSE h + 1

\* d(s, t) along referral edges, and whether t can be reached from s.
Dist(s, t) == HopsUp(t, s, {t})
Reaches(s, t) == Dist(s, t) >= 0

\* The users below u: those reached from u over at least one edge.
Descendants(u) == {v \in users : v # u /\ Reaches(u, v)}

IsAdd == lastCall.op = "add_referral"
Failed == IsAdd /\ lastCall.outcome # "ok"

\* The reachable set and the total reach as the code computes them now.
ReachableSetOf(u) == _get_reachable_users(u, reverse_referrals).result
TotalReachOf(u) == get_total_referral_count(u, reverse_referrals).result

ResultUsers == {lastCall.result[i][1] : i \in DOMAIN lastCall.result}
NonIncreasing(seq) == \A i \in 1..(Len(seq) - 1) : seq[i][2] >= seq[i + 1][2]
DistinctUsers(seq) == \A i, j \in DOMAIN seq : i # j => seq[i][1] # seq[j][1]

\* ------------------------------------------------------------------ claims

\* C1: after any sequence of add_referral calls, accepted or rejected, the
\* referral index is a forest of in-trees: every candidate has exactly one
\* referrer (one edge into it, the one referrals names), nobody refers
\* themselves, and following referrer links from any user ends without
\* coming back to a user already seen.
C1_ForestOfInTrees ==
    /\ \A c \in DOMAIN referrals :
          /\ referrals[c] # c
          /\ {e \in Edges : e[2] = c} = {<<referrals[c], c>>}
    /\ \A e \in Edges : e[2] \in DOMAIN referrals
    /\ \A u \in Ids : WalkEnds(u, {u})

C1_Witness ==
    /\ IsAdd /\ lastCall.outcome = "CycleDetected"
    /\ Cardinality(DOMAIN referrals) = MaxUsers - 1
    /\ \E u \in users : Dist(u, lastCall.referrer) = 3

\* C2: an add_referral call that fails, whatever the reason, leaves
\* referrals, reverse_referrals (its keys included) and users as they were.
C2_FailedAddChangesNothing ==
    [][(lastCall'.op = "add_referral" /\ lastCall'.outcome # "ok")
          => UNCHANGED store]_vars

C2_Witness ==
    /\ Failed /\ lastCall.outcome = "CycleDetected"
    /\ lastCall.candidate \notin DOMAIN referrals
    /\ Cardinality(Descendants(lastCall.candidate)) >= 3

\* C3 as stated: add_referral(r, c) fails when r = c, fails with
\* DuplicateReferrer whenever c already has a referrer, and fails with
\* CycleDetected when c has no referrer and r is reachable from c.
C3_AsStated ==
    [][lastCall'.op = "add_referral" =>
          LET r == lastCall'.referrer
              c == lastCall'.candidate
          IN  /\ r = c => lastCall'.outcome # "ok"
              /\ c \in DOMAIN referrals => lastCall'.outcome = "DuplicateReferrer"
              /\ (c \notin DOMAIN referrals /\ r # c /\ Reaches(c, r))
                    => lastCall'.outcome = "CycleDetected"]_vars

\* C3, amended: add_referral(r, c) fails when r = c; it fails with
\* DuplicateReferrer when c already has a referrer and r is a non-empty
\* identifier other than c (an empty r fails as InvalidInput and r = c as a
\* self-referral, both checked first); it fails with CycleDetected when c has
\* no referrer and r is reachable from c over existing edges.
C3_RejectionKinds ==
    [][lastCall'.op = "add_referral" =>
          LET r == lastCall'.referrer
              c == lastCall'.candidate
          IN  /\ r = c => lastCall'.outcome \in {"SelfReferral", "InvalidInput"}
              /\ (c \in DOMAIN referrals /\ r # Empty /\ r # c)
                    => lastCall'.outcome = "DuplicateReferrer"
              /\ (c \notin DOMAIN referrals /\ r # c /\ Reaches(c, r))
                    => lastCall'.outcome = "CycleDetected"]_vars

C3_Witness ==
    /\ IsAdd /\ lastCall.outcome = "CycleDetected"
    /\ users = Ids
    /\ Dist(lastCall.candidate, lastCall.referrer) = MaxUsers - 1

\* C4: in every reachable state and for every identifier u, the total
\* referral count of u is the size of u's reachable set, u is not in that
\* set, both are 0 and empty for a user that is unknown or has no referrals,
\* and a get_total_referral_count call returns that number.
C4_TotalReachIsSizeOfReachableSet ==
    /\ \A u \in Inputs :
          /\ TotalReachOf(u) = Cardinality(ReachableSetOf(u))
          /\ u \notin ReachableSetOf(u)
          /\ (u \notin users \/ Get(reverse_referrals, u) = {})
                => (TotalReachOf(u) = 0 /\ ReachableSetOf(u) = {})
    /\ lastCall.op = "get_total_referral_count"
          => lastCall.result = Cardinality(ReachableSetOf(lastCall.arg))

C4_Witness ==
    /\ lastCall.op = "get_total_referral_count"
    /\ lastCall.result = 3
    /\ Cardinality(Get(reverse_referrals, lastCall.arg)) = 1

\* C5: the reachable sets of the users get_unique_reach_expansion emits
\* cover exactly the union of all users' reachable sets; no user is emitted
\* twice; every emitted coverage is at least 1 and at most the size of that
\* user's own reachable set.
C5_ExpansionCoversEverything ==
    lastCall.op = "get_unique_reach_expansion" =>
        /\ UNION {ReachableSetOf(u) : u \in ResultUsers}
              = UNION {ReachableSetOf(u) : u \in users}
        /\ DistinctUsers(lastCall.result)
        /\ \A i \in DOMAIN lastCall.result :
              /\ lastCall.result[i][2] >= 1
              /\ lastCall.result[i][2]
                    <= Cardinality(ReachableSetOf(lastCall.result[i][1]))

C5_Witness ==
    /\ lastCall.op = "get_unique_reach_expansion"
    /\ Len(lastCall.result) = 2
    /\ users = Ids

\* The pairs (s, t) the claim counts for v.
PairsThrough(v) ==
    {pair \in users \X users :
        /\ pair[1] # pair[2] /\ pair[1] # v /\ pair[2] # v
        /\ Reaches(pair[1], pair[2])
        /\ Reaches(pair[1], v)
        /\ Reaches(v, pair[2])
        /\ Dist(pair[1], v) + Dist(v, pair[2]) = Dist(pair[1], pair[2])}

IsChain(a, b, c) ==
    /\ users = {a, b, c}
    /\ a # b /\ b # c /\ a # c
    /\ DOMAIN referrals = {b, c}
    /\ referrals[b] = a /\ referrals[c] = b

\* C6: with at least 3 users, the score get_flow_centrality gives v is the
\* number of ordered pairs (s, t), s, t, v pairwise distinct, with t reachable
\* from s, v reachable from s, t reachable from v and
\* d(s, v) + d(v, t) = d(s, t); on a chain A -> B -> C, B scores 1 and A and C
\* score 0.
C6_ScoreCountsPairs ==
    (lastCall.op = "get_flow_centrality" /\ Cardinality(users) >= 3) =>
        /\ \A i \in DOMAIN lastCall.result :
              lastCall.result[i][2] = Cardinality(PairsThrough(lastCall.result[i][1]))
        /\ \A a, b, c \in users :
              IsChain(a, b, c) =>
                  /\ <<b, 1>> \in Range(lastCall.result)
                  /\ <<a, 0>> \in Range(lastCall.result)
                  /\ <<c, 0>> \in Range(lastCall.result)
                  /\ Len(lastCall.result) = 3

C6_Witness ==
    /\ lastCall.op = "get_flow_centrality"
    /\ \E a, b, c \in users : IsChain(a, b, c)
    /\ lastCall.result[1][2] = 1

\* C7: get_flow_centrality returns the empty list when the store holds
\* fewer than 3 users; otherwise exactly one (user, score) entry for every
\* user, in non-increasing order of score.
C7_CentralityListsEveryUser ==
    lastCall.op = "get_flow_centrality" =>
        IF Cardinality(users) < 3 THEN lastCall.result = <<>>
        ELSE /\ Len(lastCall.result) = Cardinality(users)
             /\ ResultUsers = users
             /\ NonIncreasing(lastCall.result)

C7_Witness ==
    /\ lastCall.op = "get_flow_centrality"
    /\ Len(lastCall.result) = MaxUsers
    /\ lastCall.result[1][2] > lastCall.result[2][2]
    /\ lastCall.result[MaxUsers][2] = 0

\* The users a ranking may hold: those with a total reach above 0.
Referrers == {u \in users : TotalReachOf(u) > 0}

\* C8 as stated: get_top_referrers(k) returns the empty list for every
\* k <= 0, and all users with a total reach above 0 when k is at least their
\* number.
C8_AsStated ==
    lastCall.op = "get_top_referrers" =>
        /\ lastCall.arg <= 0 => lastCall.result = <<>>
        /\ lastCall.arg >= Cardinality(Referrers) =>
              (ResultUsers = Referrers /\ Len(lastCall.result) = Cardinality(Referrers))

\* C9: for k >= 1, get_top_referrers(k) returns min(k, m) pairs
\* (user, total reach of user), m the number of users with a reach above 0:
\* the users are distinct, each has a reach above 0, the list is in
\* non-increasing order of reach, and no user left out has a reach strictly
\* greater than one returned.
C9_TopReferrersRanking ==
    (lastCall.op = "get_top_referrers" /\ lastCall.arg >= 1) =>
        /\ Len(lastCall.result) = Min(lastCall.arg, Cardinality(Referrers))
        /\ \A i \in DOMAIN lastCall.result :
              /\ lastCall.result[i][1] \in Referrers
              /\ lastCall.result[i][2] = TotalReachOf(lastCall.result[i][1])
        /\ DistinctUsers(lastCall.result)
        /\ NonIncreasing(lastCall.result)
        /\ \A u \in Referrers \ ResultUsers :
              \A i \in DOMAIN lastCall.result : TotalReachOf(u) <= lastCall.result[i][2]

C9_Witness ==
    /\ lastCall.op = "get_top_referrers"
    /\ lastCall.arg = 2
    /\ Cardinality(Referrers) = 3
    /\ lastCall.result[1][2] > lastCall.result[2][2]

\* C10: whenever min_bonus_for_target returns a bonus b, b is a multiple of
\* the increment 10 with 0 <= b <= max_bonus, and the last cumulative total
\* of simulate_expected(adoption_prob(b), days) is at least target_hires.
C10_ReturnedBonusMeetsTarget ==
    (phase = "returned" /\ outcome.kind = "bonus") =>
        /\ outcome.value % BonusStep = 0
        /\ 0 <= outcome.value /\ outcome.value <= max_bonus
        /\ LET sim == simulate_expected(adoption_prob(call.adoption_prob, outcome.value),
                                        call.days)
           IN  /\ sim.error = "none"
               /\ sim.result # <<>>
               /\ sim.result[Len(sim.result)] >= call.target_hires * ProbDen

C10_Witness ==
    /\ phase = "returned" /\ outcome.kind = "bonus"
    /\ outcome.value = 5000
    /\ call.target_hires = 150
    /\ ~MeetsTarget(adoption_prob(call.adoption_prob, 4990), call.days, call.target_hires)

\* The probabilities adoption_prob takes on the multiples of the increment
\* below bonus b.
ProbsBelow(f, b) ==
    {adoption_prob(f, m * BonusStep) : m \in 0..((b - 1) \div BonusStep)}

\* C11, as stated: a bonus returned for a non-decreasing adoption_prob is the
\* smallest one, no multiple of the increment below it has an expected final
\* total that meets target_hires.  simulate_expected is not monotone in p
\* once slots fill (3/8 ends at 1012.5 after 27 days, 1/2 at 1000), so the
\* search can discard a smaller bonus that meets the target.
C11_AsStated ==
    (/\ phase = "returned" /\ outcome.kind = "bonus"
     /\ NonDecreasing(call.adoption_prob)
     /\ call.days > 0 /\ call.target_hires > 0)
        => \A p \in ProbsBelow(call.adoption_prob, outcome.value) :
               ~MeetsTarget(p, call.days, call.target_hires)

\* The cumulative totals of max_days days.  The day loop of simulate_expected
\* does not read days, so the totals of d days are its first d entries.
Trajectory(p) == simulate_expected(p, max_days).result

\* C12: for p in (0, 1] and target_total > 0, days_to_target returns the
\* least d in [1, max_days] whose simulate_expected(p, d) ends at or above
\* target_total, and None exactly when no d in that range does.
C12_DaysToTargetIsLeast ==
    (/\ simPhase = "returned" /\ simCall.op = "days_to_target"
     /\ 0 < simCall.p /\ simCall.p <= ProbDen /\ simCall.target_total > 0)
        => LET goal == simCall.target_total * ProbDen
               totals == Trajectory(simCall.p)
               enough == {d \in 1..max_days : totals[d] >= goal}
           IN  /\ simResult.kind \in {"days", "None"}
               /\ simResult.kind = "None" <=> enough = {}
               /\ simResult.kind = "days" =>
                    /\ simResult.value \in enough
                    /\ \A d \in enough : simResult.value <= d
                    /\ ReachesTotal(simCall.p, simResult.value, simCall.target_total)
                    /\ simResult.value > 1 =>
                         ~ReachesTotal(simCall.p, simResult.value - 1,
                                       simCall.target_total)

C12_Witness ==
    /\ simPhase = "returned" /\ simCall.op = "days_to_target"
    /\ simCall.p = (3 * ProbDen) \div 4 /\ simCall.target_total = 1050
    /\ simResult = Returns("days", 14)

\* A simulation is in its day loop.
Running(op) == simPhase \in {"day", "deactivate"} /\ simCall.op = op

\* A simulation has returned its cumulative totals.
ReturnedTotals(op) ==
    simPhase = "returned" /\ simCall.op = op /\ simResult.kind = "totals"

\* C13, as stated: every cumulative total simulate_expected returns is at most
\* N0 * C = 1000, and no slot's running count ever exceeds the capacity C.
\* A slot is tested against the capacity only after p has been added, so a
\* count below C by less than p ends above C: at p = 3/4 every slot ends at
\* 10.5 and the total at 1050.
C13_AsStated ==
    /\ ReturnedTotals("simulate_expected") =>
          \A i \in DOMAIN simResult.value :
              simResult.value[i] <=
                  initial_active_referrers * max_referrals_per_referrer * ProbDen
    /\ Running("simulate_expected") =>
          \A id \in DOMAIN simLocals.referrer_counts :
              simLocals.referrer_counts[id] <= max_referrals_per_referrer * ProbDen

\* The totals of a sequence never go down.
NonDecreasingTotals(totals) ==
    \A i \in DOMAIN totals : i > 1 => totals[i - 1] <= totals[i]

\* C14: in every run of simulate, whatever the draws: no slot's count exceeds
\* C; a slot draws only while its count is below C, so none draws after the
\* day it reached C; a day's increase is at most the number of slots active
\* that day; the returned totals never go down and never exceed N0 * C.
C14_SimulateRespectsCapacity ==
    /\ [](Running("simulate") =>
            /\ \A id \in DOMAIN simLocals.referrer_counts :
                   simLocals.referrer_counts[id] <= max_referrals_per_referrer
            /\ simPhase = "day" =>
                   \A id \in DOMAIN simLocals.referrer_counts :
                       simLocals.referrer_counts[id] < max_referrals_per_referrer
            /\ simPhase = "deactivate" =>
                   simLocals.daily_referrals <= simLocals.active_referrers)
    /\ [](ReturnedTotals("simulate") =>
            /\ NonDecreasingTotals(simResult.value)
            /\ \A i \in DOMAIN simResult.value :
                   simResult.value[i] <=
                       initial_active_referrers * max_referrals_per_referrer)
    /\ [][(simCall.op = "simulate" /\ simPhase = "day" /\ simPhase' = "deactivate")
            => /\ simLocals'.tried \subseteq DOMAIN simLocals.referrer_counts
               /\ \A id \in simLocals'.tried :
                      simLocals.referrer_counts[id] < max_referrals_per_referrer]_vars

\* On the day after the first slots can fill at p = 7/8, some slots have
\* filled and been removed, the others have drawn and some of them have won.
C14_Witness ==
    /\ simPhase = "deactivate" /\ simCall.op = "simulate"
    /\ simCall.p = (7 * ProbDen) \div 8
    /\ simLocals.day = max_referrals_per_referrer
    /\ simLocals.active_referrers < initial_active_referrers
    /\ simLocals.tried # {}
    /\ simLocals.tried = DOMAIN simLocals.referrer_counts
    /\ simLocals.daily_referrals > 0
    /\ simLocals.daily_referrals < simLocals.active_referrers
    /\ simLocals.referrers_to_deactivate # {}

\* The totals of simulate, in the unit of the totals of simulate_expected.
Scaled(totals) == [i \in DOMAIN totals |-> totals[i] * ProbDen]

\* N0 * min(i, C) on every day i.
SaturatingTotals(days) ==
    [i \in 1..days |->
        initial_active_referrers * Min(i, max_referrals_per_referrer)]

\* C15: for p = 0 and p = 1 and every days >= 0, simulate and
\* simulate_expected return the same sequence: zeros for p = 0, N0 * min(i, C)
\* on day i for p = 1, so that for p = 1 the final value is N0 * C for
\* days = C and for days = C + 1.
C15_VariantsCoincideAtZeroAndOne ==
    (/\ simPhase = "returned" /\ simCall.op \in {"simulate", "simulate_expected"}
     /\ simCall.p \in {0, ProbDen} /\ simCall.days >= 0)
        => LET days == simCall.days
               expected == simulate_expected(simCall.p, days)
               mine == IF simCall.op = "simulate" THEN Scaled(simResult.value)
                       ELSE simResult.value
           IN  /\ simResult.kind = "totals"
               /\ expected.error = "none"
               /\ mine = expected.result
               /\ simCall.p = 0 => mine = [i \in 1..days |-> 0]
               /\ simCall.p = ProbDen => mine = Scaled(SaturatingTotals(days))
               /\ (simCall.p = ProbDen /\ days >= max_referrals_per_referrer) =>
                      mine[days] = initial_active_referrers
                                      * max_referrals_per_referrer * ProbDen

C15_Witness ==
    /\ ReturnedTotals("simulate")
    /\ simCall.p = ProbDen
    /\ simCall.days = max_referrals_per_referrer + 1
    /\ random_generator.seed = 42
    /\ random_generator.drawn = initial_active_referrers * max_referrals_per_referrer
    /\ simResult.value[simCall.days] = 1000
    /\ simResult.value[simCall.days - 1] = 1000

\* p in lowest terms.
RECURSIVE Gcd(_, _)
Gcd(a, b) == IF b = 0 THEN a ELSE Gcd(b, a % b)
Numerator(p) == p \div Gcd(p, ProbDen)
Denominator(p) == ProbDen \div Gcd(p, ProbDen)

\* The distribution of one slot's count in simulate, as weights over
\* 0..C that sum to d^i after i days, when every draw wins with probability
\* a / d: a slot below C draws and gains 1 when it wins, a slot at C has been
\* removed and stays at C.
SlotAfterDay(w, a, d) ==
    [c \in 0..max_referrals_per_referrer |->
        (IF c < max_referrals_per_referrer THEN w[c] * (d - a) ELSE w[c] * d)
            + (IF c > 0 THEN w[c - 1] * a ELSE 0)]

RECURSIVE SlotWeights(_, _, _)
SlotWeights(i, a, d) ==
    IF i = 0 THEN [c \in 0..max_referrals_per_referrer |-> IF c = 0 THEN 1 ELSE 0]
    ELSE SlotAfterDay(SlotWeights(i - 1, a, d), a, d)

\* The sum of c * w[c] over c in 0..n.
RECURSIVE WeightedSum(_, _)
WeightedSum(w, n) == IF n = 0 THEN 0 ELSE n * w[n] + WeightedSum(w, n - 1)

\* The mean of a slot's count after i days of simulate is
\* MeanCountTimes(i, a, d) / d^i.
MeanCountTimes(i, a, d) ==
    WeightedSum(SlotWeights(i, a, d), max_referrals_per_referrer)

\* C16, as stated: the value simulate_expected returns for day i is the
\* expected day-i total of simulate, N0 times the mean of min(successes in i
\* Bernoulli(p) trials, C).  It is compared here for p = 0, 1/2 and 1 and the
\* days up to C + 1, where the weights fit the integers.  On day 11 at
\* p = 1/2 simulate_expected has 550, the mean total is 550 - 100/2048: a
\* slot that wins 11 times counts 10.
C16_AsStated ==
    (ReturnedTotals("simulate_expected") /\ Denominator(simCall.p) <= 2)
        => \A i \in DOMAIN simResult.value :
              i <= max_referrals_per_referrer + 1 =>
                  simResult.value[i] * (Denominator(simCall.p) ^ i)
                      = initial_active_referrers * ProbDen
                          * MeanCountTimes(i, Numerator(simCall.p),
                                           Denominator(simCall.p))

\* simulate or simulate_expected has returned or raised.
SimulationOver ==
    simPhase = "returned" /\ simCall.op \in {"simulate", "simulate_expected"}

\* C17, as stated: simulate and simulate_expected fail with
\* InvalidProbability when p is outside [0, 1] and with InvalidDuration when
\* days < 0, return the empty sequence when days = 0, and return days entries
\* for a valid p and days >= 1.  p is tested first, so a call with p outside
\* [0, 1] fails with InvalidProbability also when days is negative or 0.
C17_AsStated ==
    SimulationOver =>
        /\ ~ValidProb(simCall.p) => simResult.kind = "InvalidProbability"
        /\ simCall.days < 0 => simResult.kind = "InvalidDuration"
        /\ simCall.days = 0 => simResult = Returns("totals", <<>>)
        /\ (ValidProb(simCall.p) /\ simCall.days >= 1) =>
              simResult.kind = "totals" /\ Len(simResult.value) = simCall.days

\* C17, amended: InvalidProbability when p is outside [0, 1], whatever days
\* is; for p in [0, 1], InvalidDuration when days < 0, the empty sequence
\* when days = 0 and exactly days entries when days >= 1.
C17_SimulationPreconditions ==
    SimulationOver =>
        /\ ~ValidProb(simCall.p) => simResult.kind = "InvalidProbability"
        /\ (ValidProb(simCall.p) /\ simCall.days < 0) =>
              simResult.kind = "InvalidDuration"
        /\ (ValidProb(simCall.p) /\ simCall.days = 0) =>
              simResult = Returns("totals", <<>>)
        /\ (ValidProb(simCall.p) /\ simCall.days >= 1) =>
              simResult.kind = "totals" /\ Len(simResult.value) = simCall.days

C17_Witness ==
    /\ SimulationOver
    /\ simCall.op = "simulate"
    /\ simCall.p = ProbDen + 1 /\ simCall.days < 0
    /\ simResult.kind = "InvalidProbability"

\* C18: days_to_target returns 0 for every target_total <= 0 whatever p is,
\* also for p <= 0 and p outside [0, 1], and returns None for every p <= 0
\* with target_total > 0; in both cases no simulation is run.
C18_DaysToTargetShortcuts ==
    (simPhase = "returned" /\ simCall.op = "days_to_target") =>
        /\ simCall.target_total <= 0 =>
              simResult = Returns("days", 0) /\ simLocals.simulations = 0
        /\ (simCall.p <= 0 /\ simCall.target_total > 0) =>
              simResult = Returns("None", 0) /\ simLocals.simulations = 0

C18_Witness ==
    /\ simPhase = "returned" /\ simCall.op = "days_to_target"
    /\ simCall.p < 0 /\ simCall.target_total = 0
    /\ simResult = Returns("days", 0)
    /\ simLocals.simulations = 0

\* min_bonus_for_target has returned or raised.
BonusCallOver == phase = "returned"

\* C19, as stated: min_bonus_for_target fails with InvalidTolerance whenever
\* eps <= 0, for every days, every target_hires and every callable
\* adoption_prob.  days and target_hires are tested first: with days <= 0 or
\* target_hires <= 0 the call returns None whatever eps is.
C19_AsStated ==
    (BonusCallOver /\ call.eps <= 0 /\ call.adoption_prob.kind # "not_callable")
        => outcome.kind = "InvalidTolerance"

\* C19, amended: for days > 0 and target_hires > 0, min_bonus_for_target
\* fails with InvalidTolerance whenever eps <= 0, for every callable
\* adoption_prob, whatever it returns and whatever arguments it takes.
C19_InvalidTolerance ==
    (/\ BonusCallOver /\ call.eps <= 0 /\ call.adoption_prob.kind # "not_callable"
     /\ call.days > 0 /\ call.target_hires > 0)
        => outcome.kind = "InvalidTolerance"

C19_Witness ==
    /\ BonusCallOver
    /\ call.eps < 0 /\ call.days > 0 /\ call.target_hires > 0
    /\ call.adoption_prob.kind = "bad_arity"
    /\ outcome.kind = "InvalidTolerance"

\* adoption_prob has returned a value outside [0, 1] during the call.
ProbedOutOfRange ==
    /\ call.adoption_prob.kind = "step"
    /\ \E b \in probed : ~ValidProb(adoption_prob(call.adoption_prob, b))

\* A value adoption_prob returned to the running call is outside [0, 1].
ReturnedOutOfRange ==
    \E i \in DOMAIN returned_probs : ~ValidProb(returned_probs[i])

\* C20: for days > 0, target_hires > 0 and eps > 0, if any value adoption_prob
\* returns during a min_bonus_for_target call (at bonus 0, at max_bonus, at a
\* probe of the search or at the final verification) is outside [0, 1], the
\* call fails with InvalidProbabilityFunction, at the bonus that returned it,
\* and returns neither a bonus nor None: the value out of range is the last
\* one the call asked for.  This holds for a function of the bonus and for
\* a callable whose answers change from one call to the next.  An
\* adoption_prob that does not take one bonus argument makes the call fail
\* with InvalidSignature.
C20_InvalidProbabilityFunction ==
    (/\ BonusCallOver
     /\ call.days > 0 /\ call.target_hires > 0 /\ call.eps > 0)
        => /\ ProbedOutOfRange =>
                /\ outcome.kind = "InvalidProbabilityFunction"
                /\ outcome.value \in probed
                /\ ~ValidProb(adoption_prob(call.adoption_prob, outcome.value))
           /\ ReturnedOutOfRange =>
                /\ outcome.kind = "InvalidProbabilityFunction"
                /\ outcome.value \in probed
                /\ ~ValidProb(returned_probs[Len(returned_probs)])
                /\ \A i \in 1..(Len(returned_probs) - 1) :
                       ValidProb(returned_probs[i])
           /\ outcome.kind = "InvalidProbabilityFunction" => ReturnedOutOfRange
           /\ call.adoption_prob.kind = "bad_arity" =>
                outcome.kind = "InvalidSignature"

\* The value out of range came from the final verification: the values at 0,
\* at max_bonus and at every probe of the search had been accepted, the
\* search had ended at a bonus strictly inside the interval that it had
\* probed, and the callable answered the repeated call at that bonus with a
\* value above 1.
C20_Witness ==
    /\ BonusCallOver
    /\ call.days > 0 /\ call.target_hires > 0 /\ call.eps > 0
    /\ outcome.kind = "InvalidProbabilityFunction"
    /\ left = right
    /\ outcome.value = left
    /\ outcome.value \notin {0, max_bonus}
    /\ call.adoption_prob.kind = "changing"
    /\ Len(returned_probs) = call.adoption_prob.steady + 1
    /\ Len(returned_probs) = Cardinality(probed) + 1
    /\ returned_probs[Len(returned_probs)] = ProbDen + 1
    /\ ValidProb(adoption_prob(call.adoption_prob, outcome.value))

\* The edges as the forward index holds them.
ForwardEdges == {<<referrals[c], c>> : c \in DOMAIN referrals}

\* C21: in every reachable state c is in reverse_referrals[r] exactly when
\* referrals[c] = r, and users is exactly the set of referrers and candidates
\* of the accepted edges; a successful add_referral(r, c) adds precisely the
\* edge (r, c) and the users r and c; no call removes or changes an edge or a
\* user that was there before it.
C21_IndicesAndUsersAgree ==
    /\ [](/\ \A r, c \in Inputs :
               (c \in Get(reverse_referrals, r))
                   <=> (c \in DOMAIN referrals /\ referrals[c] = r)
          /\ users = {e[1] : e \in ForwardEdges} \cup {e[2] : e \in ForwardEdges})
    /\ [][/\ (lastCall'.op = "add_referral" /\ lastCall'.outcome = "ok") =>
               LET r == lastCall'.referrer
                   c == lastCall'.candidate
               IN  /\ <<r, c>> \notin ForwardEdges
                   /\ ForwardEdges' = ForwardEdges \cup {<<r, c>>}
                   /\ Edges' = Edges \cup {<<r, c>>}
                   /\ users' = users \cup {r, c}
           /\ ForwardEdges \subseteq ForwardEdges'
           /\ Edges \subseteq Edges'
           /\ users \subseteq users'
           /\ \A u \in DOMAIN referrals :
                 u \in DOMAIN referrals' /\ referrals'[u] = referrals[u]]_vars

\* An accepted edge that gives a referrer, new to the store, to the root of
\* a tree.
C21_Witness ==
    /\ IsAdd /\ lastCall.outcome = "ok"
    /\ Cardinality(Descendants(lastCall.candidate)) >= 2
    /\ Get(reverse_referrals, lastCall.referrer) = {lastCall.candidate}
    /\ lastCall.referrer \notin DOMAIN referrals
    /\ users = Ids

ReadOps == {"get_direct_referrals", "get_total_referral_count", "get_top_referrers",
            "get_unique_reach_expansion", "get_flow_centrality", "get_network_stats"}

\* The read that returned last, made once more on the store as it is now.
ReadAgain ==
    CASE lastCall.op = "get_direct_referrals" -> get_direct_referrals(lastCall.arg)
      [] lastCall.op = "get_total_referral_count" ->
            get_total_referral_count(lastCall.arg, reverse_referrals)
      [] lastCall.op = "get_top_referrers" ->
            get_top_referrers(lastCall.arg, reverse_referrals)
      [] lastCall.op = "get_unique_reach_expansion" ->
            get_unique_reach_expansion(reverse_referrals)
      [] lastCall.op = "get_flow_centrality" -> get_flow_centrality(reverse_referrals)
      [] lastCall.op = "get_network_stats" -> get_network_stats(reverse_referrals)

\* C22: the six read operations leave referrals, reverse_referrals (its set
\* of keys included) and users unchanged in every state reachable through
\* add_referral, and a read repeated right after it returned gives the
\* identical result and again changes nothing.
C22_ReadsChangeNothing ==
    /\ [][lastCall'.op \in ReadOps => UNCHANGED store]_vars
    /\ [](lastCall.op \in ReadOps =>
             /\ ReadAgain.result = lastCall.result
             /\ ReadAgain.rr = reverse_referrals)

\* A read that walks a whole tree, down to users that never referred anyone.
C22_Witness ==
    /\ lastCall.op = "get_flow_centrality"
    /\ users = Ids
    /\ Cardinality({u \in users : Get(reverse_referrals, u) = {}}) = 2
    /\ Cardinality(DOMAIN referrals) = MaxUsers - 1

\* C23: add_referral never rejects a valid edge: when referrer and candidate
\* are non-empty and distinct, the candidate has no referrer yet and the
\* referrer is not reachable from the candidate over the existing edges, the
\* call succeeds, also when it gives a referrer to the root of a tree and
\* when the referrer or the candidate is new to the store.
C23_ValidEdgeAccepted ==
    [][lastCall'.op = "add_referral" =>
          LET r == lastCall'.referrer
              c == lastCall'.candidate
          IN  (/\ r # Empty /\ c # Empty /\ r # c
               /\ c \notin DOMAIN referrals
               /\ ~Reaches(c, r))
                  => lastCall'.outcome = "ok"]_vars

\* Two trees joined: a user who has a referrer refers the root of another
\* tree.
C23_Witness ==
    /\ IsAdd /\ lastCall.outcome = "ok"
    /\ lastCall.referrer \in DOMAIN referrals
    /\ Descendants(lastCall.candidate) # {}
    /\ Dist(referrals[lastCall.referrer], lastCall.candidate) = 2

\* adoption_prob is a function of the bonus with all its values in [0, 1].
ValidFunction(f) ==
    /\ f.kind = "step"
    /\ ValidProb(f.v0) /\ ValidProb(f.v1) /\ ValidProb(f.v2)

\* C24: for eps > 0 and an adoption_prob with all values in [0, 1],
\* min_bonus_for_target returns None exactly when days <= 0, or
\* target_hires <= 0, or simulate_expected(adoption_prob(max_bonus), days)
\* ends below target_hires, and returns a bonus otherwise; while the search
\* runs, left <= right and the bonus at right meets the target, so the
\* verification after the loop does not fail.
C24_NoneOnlyWhenInfeasible ==
    /\ (/\ phase = "returned"
        /\ call.eps > 0
        /\ ValidFunction(call.adoption_prob))
           => /\ outcome.kind \in {"None", "bonus"}
              /\ outcome.kind = "None" <=>
                    \/ call.days <= 0
                    \/ call.target_hires <= 0
                    \/ ~MeetsTarget(adoption_prob(call.adoption_prob, max_bonus),
                                    call.days, call.target_hires)
    /\ (phase = "search" /\ ValidFunction(call.adoption_prob))
           => /\ left <= right
              /\ MeetsTarget(adoption_prob(call.adoption_prob, right),
                             call.days, call.target_hires)

\* A bonus found for a function that goes down and up again: the target is
\* met at bonus 0, missed at a bonus the search probed, and met at the bonus
\* returned and at max_bonus.
C24_Witness ==
    /\ phase = "returned" /\ outcome.kind = "bonus"
    /\ call.eps > 0
    /\ ValidFunction(call.adoption_prob)
    /\ outcome.value \notin {0, max_bonus}
    /\ MeetsTarget(adoption_prob(call.adoption_prob, 0), call.days, call.target_hires)
    /\ \E b \in probed :
          ~MeetsTarget(adoption_prob(call.adoption_prob, b),
                       call.days, call.target_hires)

\* C25, as stated: for every p in (0, 1] and every target_total with
\* 0 < target_total <= N0 * C, days_to_target returns a number of days and
\* not None.  The search stops at max_days = 1000 days, and at p below 1/100
\* the slots are not full by then: at p = 1/128 the total after 1000 days is
\* 781.25, and the total N0 * C = 1000 is only reached on day 1280.
C25_AsStated ==
    (/\ simPhase = "returned" /\ simCall.op = "days_to_target"
     /\ 0 < simCall.p /\ simCall.p <= ProbDen
     /\ 0 < simCall.target_total
     /\ simCall.target_total <= initial_active_referrers * max_referrals_per_referrer)
        => simResult.kind = "days"

\* The users without a referrer who have at least one referral.
ReferringRoots == {u \in users : u \notin DOMAIN referrals /\ Get(reverse_referrals, u) # {}}

\* The sum of the second components of a list of pairs.
RECURSIVE SumOfSeconds(_)
SumOfSeconds(seq) == IF seq = <<>> THEN 0 ELSE Head(seq)[2] + SumOfSeconds(Tail(seq))

\* C26: on every graph built by add_referral, get_unique_reach_expansion
\* emits exactly the users without a referrer who have at least one referral,
\* each once and never a user who has a referrer; each emitted coverage is
\* that user's total referral count, and the coverages sum to the number of
\* referral edges.
C26_ExpansionSelectsRoots ==
    lastCall.op = "get_unique_reach_expansion" =>
        /\ ResultUsers = ReferringRoots
        /\ Len(lastCall.result) = Cardinality(ReferringRoots)
        /\ \A i \in DOMAIN lastCall.result :
              /\ lastCall.result[i][1] \notin DOMAIN referrals
              /\ lastCall.result[i][2] = TotalReachOf(lastCall.result[i][1])
        /\ SumOfSeconds(lastCall.result) = Cardinality(DOMAIN referrals)
        /\ SumOfSeconds(lastCall.result) = Cardinality(Edges)

\* One tree in which a user below the root has referrals too: only the root
\* is emitted, with the whole tree below it as its coverage.
C26_Witness ==
    /\ lastCall.op = "get_unique_reach_expansion"
    /\ Len(lastCall.result) = 1
    /\ lastCall.result[1][2] = MaxUsers - 1
    /\ \E u \in DOMAIN referrals : Cardinality(Get(reverse_referrals, u)) = 2

\* The users above v: those v is reached from over at least one edge.
Ancestors(v) == {s \in users : s # v /\ Reaches(s, v)}

\* C27: with at least 3 users, the score get_flow_centrality gives a user v
\* is the number of users above v along referrer links times v's total
\* referral count; so a user without a referrer and a user without referrals
\* score 0.
C27_ScoreIsAncestorsTimesReach ==
    (lastCall.op = "get_flow_centrality" /\ Cardinality(users) >= 3) =>
        /\ ResultUsers = users
        /\ \A i \in DOMAIN lastCall.result :
              LET v == lastCall.result[i][1]
                  score == lastCall.result[i][2]
              IN  /\ score = Cardinality(Ancestors(v)) * TotalReachOf(v)
                  /\ v \notin DOMAIN referrals => score = 0
                  /\ Get(reverse_referrals, v) = {} => score = 0

\* A user with one user above and two below scores 2; the root above it,
\* with a total referral count of 3, scores 0.
C27_Witness ==
    /\ lastCall.op = "get_flow_centrality"
    /\ Len(lastCall.result) = MaxUsers
    /\ lastCall.result[1][2] = 2
    /\ Cardinality(Ancestors(lastCall.result[1][1])) = 1
    /\ \E i \in DOMAIN lastCall.result :
          /\ lastCall.result[i][2] = 0
          /\ TotalReachOf(lastCall.result[i][1]) = 3

\* ceil(C / p), the day on which a slot gaining p a day reaches the capacity.
FillDay(p) == ((max_referrals_per_referrer * ProbDen) + p - 1) \div p

\* C28: in every run of simulate_expected the slots move in lockstep: at the
\* end of every day the slots still active all hold the same count, and they
\* are all N0 slots or none, so that the ids below the active count are the
\* active slots; the value returned for day i is N0 * p * min(i, ceil(C / p))
\* for p > 0 and 0 for p = 0, and the total stays the same from day
\* ceil(C / p) on.
C28_SlotsInLockstep ==
    /\ (simCall.op = "simulate_expected" /\ simPhase = "day") =>
          LET counts == simLocals.referrer_counts
          IN  /\ \A a, b \in DOMAIN counts : counts[a] = counts[b]
              /\ DOMAIN counts \in {0..(initial_active_referrers - 1), {}}
              /\ DOMAIN counts = 0..(simLocals.active_referrers - 1)
    /\ ReturnedTotals("simulate_expected") =>
          \A i \in DOMAIN simResult.value :
              /\ simResult.value[i] =
                    IF simCall.p = 0 THEN 0
                    ELSE initial_active_referrers * simCall.p
                            * Min(i, FillDay(simCall.p))
              /\ (simCall.p > 0 /\ i > FillDay(simCall.p)) =>
                    simResult.value[i] = simResult.value[i - 1]

\* A run at p = 3/4 that goes on after the slots have filled: the total
\* grows up to day 14, where every slot holds 10.5, and stays there until
\* the last day.
C28_Witness ==
    /\ ReturnedTotals("simulate_expected")
    /\ simCall.p = (3 * ProbDen) \div 4
    /\ FillDay(simCall.p) = 14
    /\ Len(simResult.value) > 14
    /\ simLocals.referrer_counts = EmptyDict
    /\ simResult.value[14] > simResult.value[13]
    /\ simResult.value[Len(simResult.value)] = simResult.value[14]

\* C29: both binary searches terminate.  In days_to_target the interval
\* stays within [0, max_days] and every iteration makes right - left
\* smaller.  In min_bonus_for_target left and right stay multiples of 10
\* with 0 <= left <= right <= max_bonus, the probe is a multiple of 10 with
\* left <= mid < right, and every iteration, whether its probe meets the
\* target or not, makes right - left smaller.  Both loops are left with
\* left = right, and every call that has entered its search returns or
\* raises.
C29_SearchesTerminate ==
    /\ [](simPhase = "search" =>
             /\ 0 <= simLocals.left
             /\ simLocals.left <= simLocals.right
             /\ simLocals.right <= max_days)
    /\ [][(simPhase = "search" /\ simPhase' = "search") =>
             simLocals'.right - simLocals'.left
                 < simLocals.right - simLocals.left]_vars
    /\ [](phase = "search" =>
             /\ left % BonusStep = 0 /\ right % BonusStep = 0
             /\ 0 <= left /\ left <= right /\ right <= max_bonus
             /\ left < right =>
                   /\ Probe(left, right) % BonusStep = 0
                   /\ left <= Probe(left, right)
                   /\ Probe(left, right) < right
                   /\ \A met \in BOOLEAN :
                         LET next == Narrowed(left, right, met)
                         IN  /\ next.right - next.left < right - left
                             /\ next.left <= next.right)
    /\ [][(phase = "search" /\ phase' = "search") =>
             right' - left' < right - left]_vars
    /\ (simPhase = "search") ~> (simPhase = "returned")
    /\ (phase = "search") ~> (phase = "returned")

\* The search of min_bonus_for_target has come down to a single bonus after
\* ten iterations, the most its interval allows.
C29_Witness ==
    /\ phase = "search"
    /\ left = right
    /\ Cardinality(probed) >= 11
    /\ left \notin {0, max_bonus}

\* C30: once eps > 0 the outcome of min_bonus_for_target does not depend on
\* eps: whatever days, target_hires and adoption_prob are, what a call with
\* a tolerance above 0 returned or raised is what the call with any other
\* tolerance above 0 returns or raises: the same bonus, None, or the same
\* error.
C30_OutcomeIndependentOfEps ==
    (phase = "returned" /\ call.eps > 0) =>
        \A eps \in EpsValues :
            eps > 0 =>
                min_bonus_for_target(call.days, call.target_hires,
                                     call.adoption_prob, eps) = outcome

\* A call with the coarse tolerance 0.05 whose search ran to the end and
\* found a bonus inside the interval.
C30_Witness ==
    /\ phase = "returned" /\ outcome.kind = "bonus"
    /\ call.eps = 5
    /\ outcome.value = 5010
    /\ Cardinality(probed) >= 11

=============================================================================
